---- MODULE Spec2Model ----
(***************************************************************************)
(* A model of basic.py (the "myopl" interpreter): the lexer, the recursive *)
(* descent parser, the value model and the tree-walking evaluator, driven  *)
(* through run().  The Python call stack is the variable "stack": every    *)
(* method of the parser and of the interpreter is one action, which runs   *)
(* the frame on top of the stack up to its next call or to its return.  A  *)
(* Python exception that the code does not catch unwinds the whole stack   *)
(* and is kept in the variable "exc".                                      *)
(***************************************************************************)
EXTENDS Integers, Sequences, FiniteSets, TLC

\* ---------------------------------------------------------------- bounds
\* iterations after which a loop of the evaluated program counts as diverging
MaxIter == 6
\* nesting of calls after which the host stack is exhausted
MaxDepth == 6

\* --------------------------------------------------------- Python basics
None == "None"
NoExc == "None"
NoPos == [theindex |-> -2, linenum |-> -2, column |-> -2, filename |-> None]
NoError == [name |-> None, pos_start |-> NoPos, pos_end |-> NoPos,
            details |-> None, context |-> 0, inner |-> None]

Error(name, pos_start, pos_end, details, context) ==
    [name |-> name, pos_start |-> pos_start, pos_end |-> pos_end,
     details |-> details, context |-> context, inner |-> None]
InvalidSyntaxError(pos_start, pos_end, details) ==
    Error("Invalid Syntax", pos_start, pos_end, details, 0)
RTError(pos_start, pos_end, details, context) ==
    Error("Runtime Error", pos_start, pos_end, details, context)
IsError(e) == e.name # None

\* ---------------------------------------------------------------- numbers
\* A Python number n/d * 10^e; f says it is a float.  e is 0 except for a
\* literal too long for the checker's integers, whose leading digits are kept.
RECURSIVE Gcd(_, _)
Gcd(a, b) == IF b = 0 THEN a ELSE Gcd(b, a % b)
Abs(a) == IF a < 0 THEN -a ELSE a
PyInt(n) == [n |-> n, d |-> 1, f |-> FALSE, e |-> 0]
PyFloat(n, d) ==
    LET g == Gcd(Abs(n), d)
    IN IF n = 0 THEN [n |-> 0, d |-> 1, f |-> TRUE, e |-> 0]
       ELSE [n |-> n \div g, d |-> d \div g, f |-> TRUE, e |-> 0]
NoNum == [n |-> 0, d |-> 0, f |-> FALSE, e |-> 0]
\* float("inf")
Inf == [n |-> 1, d |-> 0, f |-> TRUE, e |-> 0]

\* ------------------------------------------------------------- constants.py
DIGITS == {"0", "1", "2", "3", "4", "5", "6", "7", "8", "9"}
LETTERS ==
    {"a", "b", "c", "d", "e", "f", "g", "h", "i", "j", "k", "l", "m",
     "n", "o", "p", "q", "r", "s", "t", "u", "v", "w", "x", "y", "z",
     "A", "B", "C", "D", "E", "F", "G", "H", "I", "J", "K", "L", "M",
     "N", "O", "P", "Q", "R", "S", "T", "U", "V", "W", "X", "Y", "Z"}
LETTERS_DIGITS == LETTERS \cup DIGITS
NUMBER_CHARS == DIGITS \cup {".", "e", "E"}
HEX_CHARS == DIGITS \cup {"a", "b", "c", "d", "e", "f", "A", "B", "C", "D", "E", "F"}
ESCAPE_CHARACTERS(ch) == IF ch = "n" THEN "\n" ELSE IF ch = "t" THEN "\t" ELSE ch

KEYWORDS ==
    {"VAR", "AND", "OR", "NOT", "IF", "ELIF", "ELSE", "FOR", "TO", "STEP",
     "WHILE", "FUN", "THEN", "END", "RETURN", "CONTINUE", "BREAK", "IMPORT"}
COMPARISONS_TOKEN ==
    {"EQUAL_TO", "NOT_EQUAL_TO", "LESS_THAN", "GREATER_THAN",
     "LESS_THAN_AND_EQUALTO", "GREATER_THAN_AND_EQUALTO"}

\* ---------------------------------------------------------------- Position
Position(theindex, linenum, column, filename) ==
    [theindex |-> theindex, linenum |-> linenum, column |-> column,
     filename |-> filename]
PositionAdvance(pos, current_char) ==
    IF current_char = "\n"
    THEN [pos EXCEPT !.theindex = @ + 1, !.linenum = @ + 1, !.column = 0]
    ELSE [pos EXCEPT !.theindex = @ + 1, !.column = @ + 1]

\* ------------------------------------------------------------------- Token
\* Token.__init__: without pos_end the token ends one plain advance after
\* pos_start (no character is passed to advance).
Token(type, value, num, pos_start, pos_end) ==
    [type |-> type, value |-> value, num |-> num, pos_start |-> pos_start,
     pos_end |-> IF pos_end = NoPos THEN PositionAdvance(pos_start, None)
                 ELSE pos_end]
Matches(tok, type, value) == tok.type = type /\ tok.value = value

\* ------------------------------------------------------------------- Lexer
CharAt(text, i) == IF i < Len(text) THEN SubSeq(text, i + 1, i + 1) ELSE None
LexerAdvance(lx) ==
    LET p == PositionAdvance(lx.pos, lx.current_char)
    IN [lx EXCEPT !.pos = p, !.current_char = CharAt(lx.text, p.theindex)]
Lexer(filename, text) ==
    LexerAdvance([text |-> text, pos |-> Position(-1, 0, -1, filename),
                  current_char |-> None])
\* what a make_* method hands back: a token or an error, and the lexer after it
LexOut(tok, error, lx, exc) == [tok |-> tok, error |-> error, lx |-> lx, exc |-> exc]
NoTok == [type |-> None, value |-> "", num |-> NoNum, pos_start |-> NoPos,
          pos_end |-> NoPos]
\* ----------------------------------------------------- numeric literals
DigitVal(ch) == CHOOSE i \in 0..15 :
    \/ SubSeq("0123456789abcdef", i + 1, i + 1) = ch
    \/ SubSeq("0123456789ABCDEF", i + 1, i + 1) = ch
RECURSIVE StrToInt(_)
StrToInt(s) == IF s = "" THEN 0
               ELSE 10 * StrToInt(SubSeq(s, 1, Len(s) - 1))
                    + DigitVal(SubSeq(s, Len(s), Len(s)))
\* s.lstrip("0")
StripZeros(s) ==
    LET zeros == CHOOSE j \in 0..Len(s) :
                    /\ \A i \in 1..j : SubSeq(s, i, i) = "0"
                    /\ j < Len(s) => SubSeq(s, j + 1, j + 1) # "0"
    IN SubSeq(s, zeros + 1, Len(s))
RECURSIVE Pow10(_)
Pow10(k) == IF k = 0 THEN 1 ELSE 10 * Pow10(k - 1)
\* int(num_str) / float(num_str + "e" + exp): the number, whether it is zero,
\* the floor of its base-10 logarithm and whether it is an exact power of ten
Literal(num_str, exp, isfloat) ==
    LET dot == IF \E i \in 1..Len(num_str) : SubSeq(num_str, i, i) = "."
               THEN CHOOSE i \in 1..Len(num_str) : SubSeq(num_str, i, i) = "."
               ELSE Len(num_str) + 1
        ipart == StripZeros(SubSeq(num_str, 1, dot - 1))
        fpart == SubSeq(num_str, dot + 1, Len(num_str))
        sig == StripZeros(ipart \o fpart)
        sig9 == SubSeq(sig, 1, IF Len(sig) < 9 THEN Len(sig) ELSE 9)
        k == exp - Len(fpart) + (Len(sig) - Len(sig9))
        m == StrToInt(sig9)
        log == IF ipart # "" THEN Len(ipart) - 1 + exp
               ELSE exp - (Len(fpart) - Len(StripZeros(fpart))) - 1
    IN [zero |-> sig = "",
        log10 |-> log,
        lead |-> m * Pow10(9 - Len(sig9)),
        pow10 |-> sig # "" /\ StripZeros(Tail(sig)) = "" /\ SubSeq(sig, 1, 1) = "1",
        num |-> IF sig = "" THEN [n |-> 0, d |-> 1, f |-> isfloat, e |-> 0]
                ELSE IF k >= 0 /\ Len(sig9) + k <= 9
                THEN [n |-> m * Pow10(k), d |-> 1, f |-> isfloat, e |-> 0]
                ELSE IF k < 0 /\ -k <= 9
                THEN [PyFloat(m, Pow10(-k)) EXCEPT !.f = isfloat]
                ELSE [n |-> m, d |-> 1, f |-> isfloat, e |-> k]]
\* float(): the literal is too big for a double and converts to inf
IsInf(lit) == ~lit.zero /\ (lit.log10 >= 309
               \/ (lit.log10 = 308 /\ lit.lead >= 179769314))
\* float(): the literal is too small for a double and converts to 0.0
IsTiny(lit) == ~lit.zero /\ (lit.log10 <= -325
                \/ (lit.log10 = -324 /\ lit.lead <= 247032822))

make_exponent_number(lx0, num_str, pos_start) ==
    LET issign == lx0.current_char \in {"+", "-"}
        sign_str == IF issign THEN lx0.current_char ELSE ""
        lx1 == IF issign THEN LexerAdvance(lx0) ELSE lx0
        n == CHOOSE j \in 0..(Len(lx1.text) - lx1.pos.theindex) :
                /\ \A i \in 0..(j - 1) : CharAt(lx1.text, lx1.pos.theindex + i) \in DIGITS
                /\ CharAt(lx1.text, lx1.pos.theindex + j) \notin DIGITS
        exponent_str == SubSeq(lx1.text, lx1.pos.theindex + 1, lx1.pos.theindex + n)
        lx2 == [lx1 EXCEPT !.pos = [@ EXCEPT !.theindex = @ + n, !.column = @ + n],
                           !.current_char = CharAt(lx1.text, lx1.pos.theindex + n)]
        ex == IF Len(StripZeros(exponent_str)) > 4 THEN 10000
              ELSE StrToInt(exponent_str)
        lit == Literal(num_str, IF sign_str = "-" THEN -ex ELSE ex, TRUE)
    IN IF exponent_str = ""
       THEN LexOut(NoTok, InvalidSyntaxError(pos_start, lx2.pos, "exponent_error"),
                   lx2, NoExc)
       ELSE IF lit.zero \/ IsTiny(lit)
       THEN \* thenumber == 0: thelog10 is read before it was ever assigned
            LexOut(NoTok, NoError, lx2, "UnboundLocalError")
       ELSE IF IsInf(lit) \/ lit.log10 >= 308
       THEN LexOut(NoTok, InvalidSyntaxError(pos_start, lx2.pos, "exponent_overflow"),
                   lx2, NoExc)
       ELSE IF lit.log10 < -308 \/ (lit.log10 = -308 /\ lit.pow10)
       THEN LexOut(NoTok, InvalidSyntaxError(pos_start, lx2.pos, "exponent_underflow"),
                   lx2, NoExc)
       ELSE LexOut(Token("FLOAT", "", lit.num, pos_start, lx2.pos), NoError, lx2, NoExc)

\* the number of rounds of the while loop of make_number: it stops at a
\* second dot, at e/E or at the first character that is no number character
NumberEnd(lx, dot_count) ==
    LET at(i) == CharAt(lx.text, lx.pos.theindex + i)
        Stop(j) == \/ at(j) = None
                   \/ at(j) \notin NUMBER_CHARS
                   \/ at(j) \in {"e", "E"}
                   \/ /\ at(j) = "."
                      /\ dot_count + Cardinality({i \in 0..(j - 1) : at(i) = "."}) = 1
    IN CHOOSE j \in 0..(Len(lx.text) - lx.pos.theindex) :
           Stop(j) /\ \A i \in 0..(j - 1) : ~Stop(i)
\* the lexer and the locals of make_number after n rounds of its while loop,
\* past the e/E if that ended it
NumberScanned(lx, num_str, dot_count, n, ch) ==
    LET past == IF ch \in {"e", "E"} THEN n + 1 ELSE n
    IN [lx |-> [lx EXCEPT !.pos = [@ EXCEPT !.theindex = @ + past, !.column = @ + past],
                          !.current_char = CharAt(lx.text, lx.pos.theindex + past)],
        num_str |-> num_str \o SubSeq(lx.text, lx.pos.theindex + 1, lx.pos.theindex + n),
        dot_count |-> dot_count
                      + Cardinality({i \in 1..n : CharAt(lx.text, lx.pos.theindex + i - 1) = "."}),
        exponent |-> ch \in {"e", "E"}]
\* the while loop of make_number, from its first round
NumberScan(lx, num_str, dot_count) ==
    LET End(n) == NumberScanned(lx, num_str, dot_count, n,
                                CharAt(lx.text, lx.pos.theindex + n))
    IN End(NumberEnd(lx, dot_count))

make_number(lx0) ==
    LET pos_start == lx0.pos
        s == NumberScan(lx0, "", 0)
        lit == Literal(s.num_str, 0, s.dot_count # 0)
    IN IF s.exponent THEN make_exponent_number(s.lx, s.num_str, pos_start)
       ELSE IF ~lit.zero /\ ~(s.dot_count # 0 /\ IsInf(lit)) /\ lit.log10 >= 308
       THEN LexOut(NoTok, InvalidSyntaxError(pos_start, s.lx.pos, "number_overflow"),
                   s.lx, NoExc)
       ELSE LexOut(Token(IF s.dot_count = 0 THEN "INT" ELSE "FLOAT", "",
                         IF s.dot_count # 0 /\ IsInf(lit) THEN Inf ELSE lit.num,
                         pos_start, s.lx.pos), NoError, s.lx, NoExc)
\* ------------------------------------------------- strings and identifiers
\* chr(): code points 9, 10 and 32..126 (96 excepted); any other is written "?"
Chr(code) ==
    LET table == " !\"#$%&'()*+,-./0123456789:;<=>?@ABCDEFGHIJKLMNOPQRSTUVWXYZ[\\]^_?abcdefghijklmnopqrstuvwxyz{|}~"
    IN IF code = 9 THEN "\t" ELSE IF code = 10 THEN "\n"
       ELSE IF code >= 32 /\ code <= 126 THEN SubSeq(table, code - 31, code - 31)
       ELSE "?"
check_the_char(lx, pos_start) ==
    IF lx.current_char = None
    THEN LexOut(NoTok, InvalidSyntaxError(pos_start, lx.pos, "unterminated_string"),
                lx, NoExc)
    ELSE IF lx.current_char \notin HEX_CHARS
    THEN LexOut(NoTok, InvalidSyntaxError(pos_start, LexerAdvance(lx).pos,
                                          "illegal_hex_char"), LexerAdvance(lx), NoExc)
    ELSE LexOut([NoTok EXCEPT !.value = lx.current_char], NoError, lx, NoExc)
handle_hex_value(lx, pos_start) ==
    LET c1 == check_the_char(lx, pos_start)
        c2 == check_the_char(LexerAdvance(c1.lx), pos_start)
    IN IF IsError(c1.error) THEN c1
       ELSE IF IsError(c2.error) THEN c2
       ELSE LexOut([NoTok EXCEPT !.value =
                       Chr(DigitVal(c1.tok.value) * 16 + DigitVal(c2.tok.value))],
                   NoError, LexerAdvance(c2.lx), NoExc)
RECURSIVE StringScan(_, _, _, _)
\* the while loop of make_string
StringScan(lx, string, escape_character_flag, pos_start) ==
    IF lx.current_char = None \/ (lx.current_char = "\"" /\ ~escape_character_flag)
    THEN LexOut([NoTok EXCEPT !.value = string], NoError, lx, NoExc)
    ELSE IF escape_character_flag /\ lx.current_char = "x"
    THEN LET h == handle_hex_value(LexerAdvance(lx), pos_start)
         IN IF IsError(h.error) THEN h
            ELSE StringScan(h.lx, string \o h.tok.value, FALSE, pos_start)
    ELSE IF escape_character_flag
    THEN StringScan(LexerAdvance(lx), string \o ESCAPE_CHARACTERS(lx.current_char),
                    FALSE, pos_start)
    ELSE IF lx.current_char = "\\"
    THEN StringScan(LexerAdvance(lx), string, TRUE, pos_start)
    ELSE StringScan(LexerAdvance(lx), string \o lx.current_char, FALSE, pos_start)
make_string(lx0) ==
    LET pos_start == lx0.pos
        s == StringScan(LexerAdvance(lx0), "", FALSE, pos_start)
    IN IF IsError(s.error) THEN s
       ELSE IF s.lx.current_char = None
       THEN LexOut(NoTok, InvalidSyntaxError(pos_start, s.lx.pos, "unterminated_string"),
                   s.lx, NoExc)
       ELSE LexOut(Token("STRING", s.tok.value, NoNum, pos_start, LexerAdvance(s.lx).pos),
                   NoError, LexerAdvance(s.lx), NoExc)

make_identifier(lx0) ==
    LET pos_start == lx0.pos
        start == lx0.pos.theindex
        n == CHOOSE j \in 1..(Len(lx0.text) - start) :
                /\ \A i \in 0..(j - 1) :
                      CharAt(lx0.text, start + i) \in LETTERS_DIGITS \cup {"_"}
                /\ CharAt(lx0.text, start + j) \notin LETTERS_DIGITS \cup {"_"}
        id_str == SubSeq(lx0.text, start + 1, start + n)
        lx1 == [lx0 EXCEPT !.pos = [@ EXCEPT !.theindex = @ + n, !.column = @ + n],
                           !.current_char = CharAt(lx0.text, start + n)]
    IN LexOut(Token(IF id_str \in KEYWORDS THEN "KEYWORD" ELSE "IDENTIFIER", id_str,
                    NoNum, pos_start, lx1.pos), NoError, lx1, NoExc)

\* make_minus_or_arrow, make_equals, make_less_than, make_greater_than: one
\* character, or two when the second is `second`
make_two_char(lx0, second, one_type, two_type) ==
    LET lx1 == LexerAdvance(lx0)
        lx2 == IF lx1.current_char = second THEN LexerAdvance(lx1) ELSE lx1
    IN LexOut(Token(IF lx1.current_char = second THEN two_type ELSE one_type, "",
                    NoNum, lx0.pos, lx2.pos), NoError, lx2, NoExc)
make_not_equals(lx0) ==
    LET lx1 == LexerAdvance(lx0)
        lx2 == LexerAdvance(lx1)
    IN IF lx1.current_char = "="
       THEN LexOut(Token("NOT_EQUAL_TO", "", NoNum, lx0.pos, lx2.pos), NoError, lx2, NoExc)
       ELSE LexOut(NoTok, Error("Expected Character", lx0.pos, lx2.pos,
                                "'=' (after '!')", 0), lx2, NoExc)

RECURSIVE CommentScan(_, _)
\* the while loop of skip_comment, up to its break or its error
CommentScan(lx, multi_line_comment) ==
    IF lx.current_char = "*" /\ multi_line_comment
    THEN IF LexerAdvance(lx).current_char # "#"
         THEN CommentScan(LexerAdvance(lx), multi_line_comment)
         ELSE LexOut(NoTok, NoError, LexerAdvance(lx), NoExc)
    ELSE IF ~multi_line_comment /\ lx.current_char \in {"\n", None}
    THEN LexOut(NoTok, NoError, lx, NoExc)
    ELSE IF lx.current_char = None
    THEN LexOut(NoTok,
                InvalidSyntaxError(
                    IF lx.pos.linenum # 0 THEN [lx.pos EXCEPT !.linenum = @ - 1]
                    ELSE lx.pos,
                    lx.pos, "unterminated_ML_comment"),
                lx, NoExc)
    ELSE CommentScan(LexerAdvance(lx), multi_line_comment)
skip_comment(lx0) ==
    LET lx1 == LexerAdvance(lx0)
        s == CommentScan(lx1, lx1.current_char = "*")
    IN IF IsError(s.error) THEN s ELSE [s EXCEPT !.lx = LexerAdvance(s.lx)]

\* the single-character tokens of make_tokens
SingleCharType(ch) ==
    CASE ch = "+" -> "PLUS" [] ch = "*" -> "MULTIPLY" [] ch = "/" -> "DIVIDE"
      [] ch = "%" -> "MODULUS" [] ch = "^" -> "POWER" [] ch = "(" -> "LPAREN"
      [] ch = ")" -> "RPAREN" [] ch = "[" -> "LSQUARE" [] ch = "]" -> "RSQUARE"
      [] ch = "," -> "COMMA" [] ch \in {";", "\n"} -> "NEWLINE" [] OTHER -> None


\* --------------------------------------------------------------- the state
VARIABLES
    session,    \* the lines the shell is going to read: an index of Sessions
    runs,       \* how many of them the shell has handed to run()
    result,     \* what the last run() returned to the shell
    stack,      \* the Python call stack, the frame of the running method last
    ret,        \* what the method that returned last handed to its caller
    parser,     \* the Parser object of the run() in progress
    heap,       \* the values, the contexts and the symbol tables
    exc         \* the Python exception that ended the shell, if any
vars == <<session, runs, result, stack, ret, parser, heap, exc>>

\* ------------------------------------------------------------- the machine
Top == stack[Len(stack)]
Below == SubSeq(stack, 1, Len(stack) - 1)
Running(fn) == stack # <<>> /\ Top.fn = fn
\* nothing was returned: a call is in progress
NoRet == [kind |-> None]
\* the running method: its frame f (arguments, locals and the place pc it
\* goes on from) and the objects it works on, the parser p and the heap h
Self == [f |-> Top, p |-> parser, h |-> heap]
\* new or changed locals of the running method
Let(fr, locals) == [fr EXCEPT !.f = locals @@ @]
\* what a step of the running method comes to: it calls a method, going on
\* from pc once that returns; it returns the callee's result as its own
\* (return self.method(...)); it returns a value; it goes round a loop of
\* its own; it raises an exception that nothing catches
Call(fr, pc, callee) ==
    [stack |-> Below \o <<[fr.f EXCEPT !.pc = pc], callee>>, ret |-> NoRet,
     parser |-> fr.p, heap |-> fr.h, exc |-> NoExc]
TailCall(fr, callee) ==
    [stack |-> Below \o <<callee>>, ret |-> NoRet, parser |-> fr.p, heap |-> fr.h,
     exc |-> NoExc]
Return(fr, value) ==
    [stack |-> Below, ret |-> value, parser |-> fr.p, heap |-> fr.h, exc |-> NoExc]
Again(fr, pc) ==
    [stack |-> Below \o <<[fr.f EXCEPT !.pc = pc]>>, ret |-> NoRet, parser |-> fr.p,
     heap |-> fr.h, exc |-> NoExc]
Raise(fr, exception) ==
    [stack |-> <<>>, ret |-> NoRet, parser |-> fr.p, heap |-> fr.h, exc |-> exception]
Step(to) ==
    /\ stack' = to.stack
    /\ ret' = to.ret
    /\ parser' = to.parser
    /\ heap' = to.heap
    /\ exc' = to.exc
    /\ UNCHANGED <<session, runs, result>>

\* -------------------------------------------------------- Lexer.make_tokens
\* the return of make_tokens on an error as it would be with the tokens made
\* so far handed back
failed_tokens_kept(fr, error) ==
    Return(fr, [tokens |-> fr.f.tokens, error |-> error])
\* return [], error
failed_tokens(fr, error) ==
    Return(fr, [tokens |-> <<>>, error |-> error])
\* the return of make_tokens at the end of the text as it would be without
\* the EOF token
finished_tokens_without_EOF(fr) ==
    Return(fr, [tokens |-> fr.f.tokens, error |-> NoError])
\* tokens.append(Token(TOKEN_TYPE_EOF, pos_start=self.pos)); return tokens, None
finished_tokens(fr) ==
    Return(fr, [tokens |-> Append(fr.f.tokens,
                                  Token("EOF", "", NoNum, fr.f.lx.pos, NoPos)),
                error |-> NoError])
\* one round of the while loop of make_tokens; the frame holds the lexer
\* (self) as lx and the list tokens
make_tokens ==
    /\ Running("make_tokens")
    /\ LET fr == Self
           lx == fr.f.lx
           ch == lx.current_char
           made == IF ch = "#" THEN skip_comment(lx)
                   ELSE IF ch \in DIGITS THEN make_number(lx)
                   ELSE IF ch \in LETTERS THEN make_identifier(lx)
                   ELSE IF ch = "\"" THEN make_string(lx)
                   ELSE IF ch = "-" THEN make_two_char(lx, ">", "MINUS", "ARROW")
                   ELSE IF ch = "!" THEN make_not_equals(lx)
                   ELSE IF ch = "=" THEN make_two_char(lx, "=", "ASSIGN", "EQUAL_TO")
                   ELSE IF ch = "<"
                   THEN make_two_char(lx, "=", "LESS_THAN", "LESS_THAN_AND_EQUALTO")
                   ELSE make_two_char(lx, "=", "GREATER_THAN", "GREATER_THAN_AND_EQUALTO")
       IN Step(
           IF ch = None
           THEN finished_tokens(fr)
           ELSE IF ch \in {" ", "\t"}
           THEN Again([fr EXCEPT !.f.lx = LexerAdvance(lx)], 0)
           ELSE IF SingleCharType(ch) # None
           THEN Again([fr EXCEPT !.f.lx = LexerAdvance(lx),
                                 !.f.tokens = Append(@, Token(SingleCharType(ch), "",
                                                              NoNum, lx.pos, NoPos))], 0)
           ELSE IF ch \in DIGITS \cup LETTERS \cup {"#", "\"", "-", "!", "=", "<", ">"}
           THEN IF made.exc # NoExc THEN Raise(fr, made.exc)
                ELSE IF IsError(made.error)
                THEN failed_tokens(fr, made.error)
                ELSE Again([fr EXCEPT !.f.lx = made.lx,
                                      !.f.tokens = IF ch = "#" THEN @
                                                   ELSE Append(@, made.tok)], 0)
           ELSE failed_tokens(fr, Error("Illegal Character", lx.pos,
                                        LexerAdvance(lx).pos, "'" \o ch \o "'", 0)))

\* ------------------------------------------------------------- ParseResult
\* a node that is Python's None
NoNode == [kind |-> None]
ParseResult ==
    [error |-> NoError, node |-> NoNode, last_registered_advance_count |-> 0,
     advance_count |-> 0, to_reverse_count |-> 0]

\* ------------------------------------------------------------------ Parser
\* Parser.reverse as it would be if it went back one token whatever the
\* amount asked for
ParserReverse_by_one(p, amount) ==
    LET i == p.token_index - (IF amount > 1 THEN 1 ELSE amount)
    IN [p EXCEPT !.token_index = i,
                 !.current_token = IF i >= 0 /\ i < Len(p.tokens) THEN p.tokens[i + 1]
                                   ELSE @]
\* Parser.advance / Parser.reverse with update_current_tok: the current token
\* is kept when the index leaves the token list
ParserReverse(p, amount) ==
    LET i == p.token_index - amount
    IN [p EXCEPT !.token_index = i,
                 !.current_token = IF i >= 0 /\ i < Len(p.tokens) THEN p.tokens[i + 1]
                                   ELSE @]
ParserAdvance(p) == ParserReverse(p, -1)
Parser(tokens) ==
    ParserAdvance([tokens |-> tokens, token_index |-> -1, current_token |-> NoTok])

\* the frame a grammar method starts in; its ParseResult is the local result
Method(fn, in_a_function, in_a_loop) ==
    [fn |-> fn, pc |-> 0, in_a_function |-> in_a_function, in_a_loop |-> in_a_loop,
     result |-> ParseResult]
\* result.register_advancement(); self.advance()
ParseAdvance(fr) ==
    [fr EXCEPT !.f.result.last_registered_advance_count = 1,
               !.f.result.advance_count = @ + 1,
               !.p = ParserAdvance(@)]
\* result.register(res): res is the ParseResult the called method returned
ParseRegister(fr, res) ==
    [fr EXCEPT !.f.result.last_registered_advance_count = res.advance_count,
               !.f.result.advance_count = @ + res.advance_count,
               !.f.result.error = IF res.error # NoError THEN res.error ELSE @]
\* try_register as it would be if it registered the result whatever it is
try_register_registers(fr, res) == ParseRegister(fr, res)
\* result.try_register(res): an error is not registered, the advance_count of
\* the failed result is kept to reverse the cursor by
try_register(fr, res) ==
    IF res.error # NoError
    THEN [fr EXCEPT !.f.result.to_reverse_count = res.advance_count]
    ELSE ParseRegister(fr, res)
\* return result.success(node)
ParseSuccess(fr, node) == Return(fr, [fr.f.result EXCEPT !.node = node])
\* result.failure(error), which keeps an error registered after an advance
ParseFailure(fr, error) ==
    IF fr.f.result.error = NoError \/ fr.f.result.last_registered_advance_count = 0
    THEN [fr EXCEPT !.f.result.error = error] ELSE fr
\* return result.failure(InvalidSyntaxError(current_token.pos_start, .pos_end,
\* details))
Expected(fr, details) ==
    Return(fr, ParseFailure(fr, InvalidSyntaxError(fr.p.current_token.pos_start,
                                                   fr.p.current_token.pos_end,
                                                   details)).f.result)

parse ==
    /\ Running("parse")
    /\ LET fr == Self
           fr1 == [fr EXCEPT !.f.result = ret]
       IN Step(IF fr.f.pc = 0 THEN Call(fr, 1, Method("statements", FALSE, FALSE))
               ELSE IF ret.error = NoError /\ fr.p.current_token.type # "EOF"
               THEN Expected(fr1, "tokens_out_of_place")
               ELSE Return(fr1, ret))

RECURSIVE SkipNewlines(_)
\* while self.current_token.type == TOKEN_TYPE_NEWLINE: advance
SkipNewlines(fr) ==
    IF fr.p.current_token.type = "NEWLINE" THEN SkipNewlines(ParseAdvance(fr)) ELSE fr

statements ==
    /\ Running("statements")
    /\ LET fr == Self
           in_a_function == fr.f.in_a_function
           in_a_loop == fr.f.in_a_loop
           fr0 == Let(fr, [statements |-> <<>>,
                           pos_start |-> fr.p.current_token.pos_start])
           fr1 == ParseRegister(fr, ret)
           fr2 == [fr EXCEPT !.f.result = ret.result, !.f.statements = ret.statements]
       IN Step(CASE fr.f.pc = 0 ->
                      Call(SkipNewlines(fr0), 1,
                           Method("statement", in_a_function, in_a_loop))
                 [] fr.f.pc = 1 ->
                      IF fr1.f.result.error # NoError THEN Return(fr1, fr1.f.result)
                      ELSE Call([fr1 EXCEPT !.f.statements = <<ret.node>>], 2,
                                [Method("parse_any_additional_statements",
                                        in_a_function, in_a_loop)
                                 EXCEPT !.result = fr1.f.result]
                                @@ [statements |-> <<ret.node>>,
                                    more_statements |-> TRUE])
                 [] fr.f.pc = 2 ->
                      ParseSuccess(fr2,
                          [kind |-> "ListNode", element_nodes |-> ret.statements,
                           pos_start |-> fr.f.pos_start,
                           pos_end |-> fr.p.current_token.pos_end]))

\* the frame holds the caller's list statements and its ParseResult, which
\* go back to it as the pair (statements, result)
parse_any_additional_statements ==
    /\ Running("parse_any_additional_statements")
    /\ LET fr == Self
           \* the statement that was tried: on an error go back to where it began
           fr1 == try_register(fr, ret)
           fr2 == IF fr.f.pc = 0 THEN fr
                  ELSE IF ret.error # NoError
                  THEN [fr1 EXCEPT !.p = ParserReverse(@, fr1.f.result.to_reverse_count),
                                   !.f.more_statements = FALSE]
                  ELSE [fr1 EXCEPT !.f.statements = Append(@, ret.node)]
           \* the top of the while True loop
           fr3 == SkipNewlines(fr2)
           newline_count == fr3.f.result.advance_count - fr2.f.result.advance_count
       IN Step(IF fr2.f.more_statements /\ newline_count # 0
               THEN Call(fr3, 1, Method("statement", fr.f.in_a_function, fr.f.in_a_loop))
               ELSE Return(fr3, [statements |-> fr3.f.statements,
                                 result |-> fr3.f.result]))

statement ==
    /\ Running("statement")
    /\ LET fr == Self
           token == fr.p.current_token
           fr1 == ParseRegister(fr, ret)
           Hand(fn) == TailCall(fr, [pos_start |-> token.pos_start, fn |-> fn] @@ fr.f)
       IN Step(IF fr.f.pc = 1
               THEN IF fr1.f.result.error # NoError
                    THEN Expected(fr1, "statement_syntax_error")
                    ELSE ParseSuccess(fr1, ret.node)
               ELSE IF Matches(token, "KEYWORD", "RETURN") THEN Hand("parse_return")
               ELSE IF Matches(token, "KEYWORD", "CONTINUE") THEN Hand("parse_continue")
               ELSE IF Matches(token, "KEYWORD", "BREAK") THEN Hand("parse_break")
               ELSE IF Matches(token, "KEYWORD", "IMPORT") THEN Hand("parse_import")
               ELSE Call(fr, 1, Method("expr", fr.f.in_a_function, fr.f.in_a_loop)))

\* parse_return, parse_continue, parse_break and parse_import work on the
\* ParseResult of statement, which returns what they return
parse_return ==
    /\ Running("parse_return")
    /\ LET fr == Self
           fr1 == ParseAdvance(fr)
           fr2 == try_register(fr, ret)
           fr3 == IF ret.error # NoError
                  THEN [fr2 EXCEPT !.p = ParserReverse(@, fr2.f.result.to_reverse_count)]
                  ELSE fr2
       IN Step(IF fr.f.pc = 0
               THEN IF ~fr.f.in_a_function THEN Expected(fr1, "bad_return")
                    ELSE Call(fr1, 1, Method("expr", fr.f.in_a_function, fr.f.in_a_loop))
               ELSE ParseSuccess(fr3,
                        [kind |-> "ReturnNode",
                         node_to_return |-> IF ret.error # NoError THEN NoNode
                                            ELSE ret.node,
                         pos_start |-> fr.f.pos_start,
                         pos_end |-> fr3.p.current_token.pos_start]))
parse_continue ==
    /\ Running("parse_continue")
    /\ LET fr1 == ParseAdvance(Self)
       IN Step(IF ~fr1.f.in_a_loop THEN Expected(fr1, "bad_continue")
               ELSE ParseSuccess(fr1, [kind |-> "ContinueNode",
                                       pos_start |-> fr1.f.pos_start,
                                       pos_end |-> fr1.p.current_token.pos_start]))
parse_break ==
    /\ Running("parse_break")
    /\ LET fr1 == ParseAdvance(Self)
       IN Step(IF ~fr1.f.in_a_loop THEN Expected(fr1, "bad_break")
               ELSE ParseSuccess(fr1, [kind |-> "BreakNode",
                                       pos_start |-> fr1.f.pos_start,
                                       pos_end |-> fr1.p.current_token.pos_start]))
parse_import ==
    /\ Running("parse_import")
    /\ LET fr == Self
           fr1 == ParseAdvance(fr)
           fr2 == ParseRegister(fr, ret)
       IN Step(IF fr.f.pc = 0
               THEN IF fr1.p.current_token.type # "STRING"
                    THEN Expected(fr1, "string_expected")
                    ELSE Call(fr1, 1, Method("atom", fr.f.in_a_function, fr.f.in_a_loop))
               ELSE ParseSuccess(fr2, [kind |-> "ImportNode", string_node |-> ret.node,
                                       pos_start |-> fr.f.pos_start,
                                       pos_end |-> fr2.p.current_token.pos_start]))

\* ------------------------------------------------------------- expressions
\* the frame of bin_op(in_a_function, in_a_loop, func_a, ops, func_b); ops
\* holds (type, value) pairs, value "" for a token that carries none
BinOp(in_a_function, in_a_loop, func_a, ops, func_b) ==
    Method("bin_op", in_a_function, in_a_loop)
    @@ [func_a |-> func_a, ops |-> ops, func_b |-> func_b]

expr ==
    /\ Running("expr")
    /\ LET fr == Self
           fr1 == ParseRegister(fr, ret)
       IN Step(IF fr.f.pc = 1
               THEN IF fr1.f.result.error # NoError
                    THEN Expected(fr1, "expr_syntax_error")
                    ELSE ParseSuccess(fr1, ret.node)
               ELSE IF Matches(fr.p.current_token, "KEYWORD", "VAR")
               THEN TailCall(fr, [fr.f EXCEPT !.fn = "parse_variable_assignment"])
               ELSE Call(fr, 1, BinOp(fr.f.in_a_function, fr.f.in_a_loop, "comp_expr",
                                      {<<"KEYWORD", "AND">>, <<"KEYWORD", "OR">>},
                                      "comp_expr")))

\* works on the ParseResult of expr, which returns what it returns
parse_variable_assignment ==
    /\ Running("parse_variable_assignment")
    /\ LET fr == Self
           fr1 == ParseAdvance(fr)
           fr2 == ParseAdvance(fr1)
           fr3 == ParseAdvance(fr2)
           fr4 == ParseRegister(fr, ret)
       IN Step(IF fr.f.pc = 0
               THEN IF fr1.p.current_token.type # "IDENTIFIER"
                    THEN Expected(fr1, "identifier_expected")
                    ELSE IF fr2.p.current_token.type # "ASSIGN"
                    THEN Expected(fr2, "equal_expected")
                    ELSE Call(Let(fr3, [var_name |-> fr1.p.current_token]), 1,
                              Method("expr", fr.f.in_a_function, fr.f.in_a_loop))
               ELSE IF fr4.f.result.error # NoError THEN Return(fr4, fr4.f.result)
               ELSE ParseSuccess(fr4, [kind |-> "VarAssignNode",
                                       var_name_token |-> fr.f.var_name,
                                       value_node |-> ret.node,
                                       pos_start |-> fr.f.var_name.pos_start,
                                       pos_end |-> ret.node.pos_end]))

comp_expr ==
    /\ Running("comp_expr")
    /\ LET fr == Self
           in_a_function == fr.f.in_a_function
           in_a_loop == fr.f.in_a_loop
           fr1 == ParseRegister(fr, ret)
       IN Step(CASE fr.f.pc = 0 ->
                      IF Matches(fr.p.current_token, "KEYWORD", "NOT")
                      THEN Call(Let(ParseAdvance(fr),
                                    [operator_token |-> fr.p.current_token]), 1,
                                Method("comp_expr", in_a_function, in_a_loop))
                      ELSE Call(fr, 2, BinOp(in_a_function, in_a_loop, "arith_expr",
                                             {<<t, "">> : t \in COMPARISONS_TOKEN},
                                             "arith_expr"))
                 [] fr.f.pc = 1 ->
                      IF fr1.f.result.error # NoError THEN Return(fr1, fr1.f.result)
                      ELSE ParseSuccess(fr1,
                               [kind |-> "UnaryOpNode",
                                operator_token |-> fr.f.operator_token,
                                node |-> ret.node,
                                pos_start |-> fr.f.operator_token.pos_start,
                                pos_end |-> ret.node.pos_end])
                 [] fr.f.pc = 2 ->
                      IF fr1.f.result.error # NoError
                      THEN Expected(fr1, "comp_syntax_error")
                      ELSE ParseSuccess(fr1, ret.node))

arith_expr ==
    /\ Running("arith_expr")
    /\ Step(TailCall(Self, BinOp(Top.in_a_function, Top.in_a_loop, "term",
                                 {<<"PLUS", "">>, <<"MINUS", "">>}, "term")))
term ==
    /\ Running("term")
    /\ Step(TailCall(Self, BinOp(Top.in_a_function, Top.in_a_loop, "factor",
                                 {<<"MULTIPLY", "">>, <<"DIVIDE", "">>,
                                  <<"MODULUS", "">>}, "factor")))
power ==
    /\ Running("power")
    /\ Step(TailCall(Self, BinOp(Top.in_a_function, Top.in_a_loop, "call",
                                 {<<"POWER", "">>}, "factor")))
factor ==
    /\ Running("factor")
    /\ LET fr == Self
           token == fr.p.current_token
           fr1 == ParseRegister(fr, ret)
       IN Step(IF fr.f.pc = 1
               THEN IF fr1.f.result.error # NoError THEN Return(fr1, fr1.f.result)
                    ELSE ParseSuccess(fr1, [kind |-> "UnaryOpNode",
                                            operator_token |-> fr.f.token,
                                            node |-> ret.node,
                                            pos_start |-> fr.f.token.pos_start,
                                            pos_end |-> ret.node.pos_end])
               ELSE IF token.type \in {"PLUS", "MINUS"}
               THEN Call(Let(ParseAdvance(fr), [token |-> token]), 1,
                         Method("factor", fr.f.in_a_function, fr.f.in_a_loop))
               ELSE TailCall(fr, Method("power", fr.f.in_a_function, fr.f.in_a_loop)))

\* func_a and func_b are the names of the bound methods bin_op was handed
bin_op ==
    /\ Running("bin_op")
    /\ LET fr == Self
           fr1 == ParseRegister(fr, ret)
           left == IF fr.f.pc = 1 THEN ret.node
                   ELSE [kind |-> "BinOpNode", left_node |-> fr.f.left,
                         operator_token |-> fr.f.operator_token,
                         right_node |-> ret.node,
                         pos_start |-> fr.f.left.pos_start,
                         pos_end |-> ret.node.pos_end]
           operator_token == fr1.p.current_token
       IN Step(IF fr.f.pc = 0
               THEN Call(fr, 1, Method(fr.f.func_a, fr.f.in_a_function, fr.f.in_a_loop))
               ELSE IF fr1.f.result.error # NoError THEN Return(fr1, fr1.f.result)
               \* the while loop
               ELSE IF <<operator_token.type, operator_token.value>> \in fr.f.ops
               THEN Call(Let(ParseAdvance(fr1),
                             [left |-> left, operator_token |-> operator_token]), 2,
                         Method(fr.f.func_b, fr.f.in_a_function, fr.f.in_a_loop))
               ELSE ParseSuccess(fr1, left))

call ==
    /\ Running("call")
    /\ LET fr == Self
           in_a_function == fr.f.in_a_function
           in_a_loop == fr.f.in_a_loop
           fr1 == ParseRegister(fr, ret)
           fr2 == ParseAdvance(fr1)
           \* an argument was parsed: the while loop and what follows it
           fr3 == [fr1 EXCEPT !.f.arg_nodes = Append(@, ret.node)]
           CallNode(atom, arg_nodes) ==
               [kind |-> "CallNode", node_to_call |-> atom, arg_nodes |-> arg_nodes,
                pos_start |-> atom.pos_start,
                pos_end |-> IF Len(arg_nodes) > 0 THEN arg_nodes[Len(arg_nodes)].pos_end
                            ELSE atom.pos_end]
       IN Step(CASE fr.f.pc = 0 -> Call(fr, 1, Method("atom", in_a_function, in_a_loop))
                 [] fr.f.pc = 1 ->
                      IF fr1.f.result.error # NoError THEN Return(fr1, fr1.f.result)
                      ELSE IF fr1.p.current_token.type # "LPAREN"
                      THEN ParseSuccess(fr1, ret.node)
                      ELSE IF fr2.p.current_token.type = "RPAREN"
                      THEN ParseSuccess(ParseAdvance(fr2), CallNode(ret.node, <<>>))
                      ELSE Call(Let(fr2, [atom |-> ret.node, arg_nodes |-> <<>>]), 2,
                                Method("expr", in_a_function, in_a_loop))
                 [] fr.f.pc \in {2, 3} ->
                      IF fr1.f.result.error # NoError
                      THEN IF fr.f.pc = 2 THEN Expected(fr1, "arg1_syntax_error")
                           ELSE Return(fr1, fr1.f.result)
                      ELSE IF fr3.p.current_token.type = "COMMA"
                      THEN Call(ParseAdvance(fr3), 3,
                                Method("expr", in_a_function, in_a_loop))
                      ELSE IF fr3.p.current_token.type # "RPAREN"
                      THEN Expected(fr3, "comma_rparen_expected")
                      ELSE ParseSuccess(ParseAdvance(fr3),
                                        CallNode(fr.f.atom, fr3.f.arg_nodes)))

list_expr ==
    /\ Running("list_expr")
    /\ LET fr == Self
           in_a_function == fr.f.in_a_function
           in_a_loop == fr.f.in_a_loop
           fr1 == ParseAdvance(fr)
           fr2 == ParseAdvance(fr1)
           fr3 == ParseRegister(fr, ret)
           fr4 == [fr3 EXCEPT !.f.element_nodes = Append(@, ret.node)]
           fr5 == ParseAdvance(fr4)
           ListNode(element_nodes, pos_start, at) ==
               [kind |-> "ListNode", element_nodes |-> element_nodes,
                pos_start |-> pos_start, pos_end |-> at.p.current_token.pos_end]
       IN Step(CASE fr.f.pc = 0 ->
                      IF fr.p.current_token.type # "LSQUARE"
                      THEN Expected(fr, "lbracket_expected")
                      ELSE IF fr1.p.current_token.type = "RSQUARE"
                      THEN ParseSuccess(fr2, ListNode(<<>>, fr.p.current_token.pos_start,
                                                      fr2))
                      ELSE Call(Let(fr1, [element_nodes |-> <<>>,
                                          pos_start |-> fr.p.current_token.pos_start]),
                                1, Method("expr", in_a_function, in_a_loop))
                 [] fr.f.pc \in {1, 2} ->
                      IF fr3.f.result.error # NoError
                      THEN IF fr.f.pc = 1 THEN Expected(fr3, "list_element_expected")
                           ELSE Return(fr3, fr3.f.result)
                      ELSE IF fr4.p.current_token.type = "COMMA"
                      THEN Call(ParseAdvance(fr4), 2,
                                Method("expr", in_a_function, in_a_loop))
                      ELSE IF fr4.p.current_token.type # "RSQUARE"
                      THEN Expected(fr4, "comma_rbracket_expected")
                      ELSE ParseSuccess(fr5, ListNode(fr4.f.element_nodes,
                                                      fr.f.pos_start, fr5)))

atom ==
    /\ Running("atom")
    /\ LET fr == Self
           in_a_function == fr.f.in_a_function
           in_a_loop == fr.f.in_a_loop
           token == fr.p.current_token
           fr1 == ParseAdvance(fr)
           fr2 == ParseRegister(fr, ret)
           Leaf(kind) == [kind |-> kind, token |-> token, pos_start |-> token.pos_start,
                          pos_end |-> token.pos_end]
       IN Step(CASE fr.f.pc = 0 ->
                      IF token.type \in {"INT", "FLOAT"}
                      THEN ParseSuccess(fr1, Leaf("NumberNode"))
                      ELSE IF token.type = "STRING"
                      THEN ParseSuccess(fr1, Leaf("StringNode"))
                      ELSE IF token.type = "IDENTIFIER"
                      THEN ParseSuccess(fr1, Leaf("VarAccessNode"))
                      ELSE IF token.type = "LPAREN"
                      THEN Call(fr1, 1, Method("expr", in_a_function, in_a_loop))
                      ELSE IF token.type = "LSQUARE"
                      THEN Call(fr, 2, Method("list_expr", in_a_function, in_a_loop))
                      ELSE IF Matches(token, "KEYWORD", "IF")
                      THEN Call(fr, 2, Method("if_expr", in_a_function, in_a_loop))
                      ELSE IF Matches(token, "KEYWORD", "FOR")
                      THEN Call(fr, 2, Method("for_expr", in_a_function, TRUE))
                      ELSE IF Matches(token, "KEYWORD", "WHILE")
                      THEN Call(fr, 2, Method("while_expr", in_a_function, TRUE))
                      ELSE IF Matches(token, "KEYWORD", "FUN")
                      THEN Call(fr, 2, Method("func_def", TRUE, in_a_loop))
                      ELSE Return(fr, ParseFailure(fr,
                               InvalidSyntaxError(token.pos_start, token.pos_end,
                                                  "atom_syntax_error")).f.result)
                 [] fr.f.pc = 1 ->
                      IF fr2.f.result.error # NoError THEN Return(fr2, fr2.f.result)
                      ELSE IF fr2.p.current_token.type = "RPAREN"
                      THEN ParseSuccess(ParseAdvance(fr2), ret.node)
                      ELSE Expected(fr2, "rparen_expected")
                 [] fr.f.pc = 2 ->
                      IF fr2.f.result.error # NoError THEN Return(fr2, fr2.f.result)
                      ELSE ParseSuccess(fr2, ret.node))

\* ---------------------------------------------------------------------- IF
\* the tuple (cases, else_case): cases are (condition, expr,
\* should_return_none) and else_case is (expr, should_return_none) or None
\* an else case as it would be if it were marked whatever its form
ElseCase_of_statements(node, should_return_none) ==
    [kind |-> "else_case", node |-> node, should_return_none |-> TRUE]
ElseCase(node, should_return_none) ==
    [kind |-> "else_case", node |-> node, should_return_none |-> should_return_none]
AllCases(cases, else_case) == [kind |-> "all_cases", cases |-> cases, else_case |-> else_case]

if_expr ==
    /\ Running("if_expr")
    /\ LET fr == Self
           fr1 == ParseRegister(fr, ret)
           cases == ret.node.cases
           else_case == ret.node.else_case
       IN Step(IF fr.f.pc = 0
               THEN Call(fr, 1, Method("if_expr_cases", fr.f.in_a_function, fr.f.in_a_loop)
                                @@ [case_keyword |-> "IF"])
               ELSE IF fr1.f.result.error # NoError THEN Return(fr1, fr1.f.result)
               ELSE ParseSuccess(fr1,
                        [kind |-> "IfNode", cases |-> cases, else_case |-> else_case,
                         pos_start |-> cases[1].condition.pos_start,
                         pos_end |-> IF else_case.kind # None THEN else_case.node.pos_end
                                     ELSE cases[Len(cases)].condition.pos_end]))

if_expr_b ==
    /\ Running("if_expr_b")
    /\ Step(TailCall(Self, Method("if_expr_cases", Top.in_a_function, Top.in_a_loop)
                           @@ [case_keyword |-> "ELIF"]))

\* parse_multiline_else returns the pair (else_case, error), which is ret with
\* tuple TRUE, or the bare ParseResult, which cannot be unpacked into a pair
if_expr_c ==
    /\ Running("if_expr_c")
    /\ LET fr == Self
           fr1 == ParseAdvance(fr)
           fr2 == ParseRegister(fr, ret)
           fr3 == [fr EXCEPT !.f.result = ret.result]
       IN Step(CASE fr.f.pc = 0 ->
                      IF ~Matches(fr.p.current_token, "KEYWORD", "ELSE")
                      THEN ParseSuccess(fr, NoNode)
                      ELSE IF fr1.p.current_token.type = "NEWLINE"
                      THEN Call(fr1, 1, [fr1.f EXCEPT !.fn = "parse_multiline_else"])
                      ELSE Call(fr1, 2, Method("statement", fr.f.in_a_function,
                                               fr.f.in_a_loop))
                 [] fr.f.pc = 1 ->
                      IF ~ret.tuple THEN Raise(fr3, "TypeError")
                      ELSE IF ret.error THEN Return(fr3, ret.result)
                      ELSE ParseSuccess(fr3, ret.else_case)
                 [] fr.f.pc = 2 ->
                      IF fr2.f.result.error # NoError THEN Return(fr2, fr2.f.result)
                      ELSE ParseSuccess(fr2, ElseCase(ret.node, FALSE)))

if_expr_b_or_c ==
    /\ Running("if_expr_b_or_c")
    /\ LET fr == Self
           fr1 == ParseRegister(fr, ret)
       IN Step(CASE fr.f.pc = 0 ->
                      IF Matches(fr.p.current_token, "KEYWORD", "ELIF")
                      THEN Call(fr, 1, Method("if_expr_b", fr.f.in_a_function,
                                              fr.f.in_a_loop))
                      ELSE Call(fr, 2, Method("if_expr_c", fr.f.in_a_function,
                                              fr.f.in_a_loop))
                 [] fr.f.pc = 1 ->
                      IF fr1.f.result.error # NoError THEN Return(fr1, fr1.f.result)
                      ELSE ParseSuccess(fr1, ret.node)
                 [] fr.f.pc = 2 ->
                      IF fr1.f.result.error # NoError THEN Return(fr1, fr1.f.result)
                      ELSE ParseSuccess(fr1, AllCases(<<>>, ret.node)))

if_expr_cases ==
    /\ Running("if_expr_cases")
    /\ LET fr == Self
           in_a_function == fr.f.in_a_function
           in_a_loop == fr.f.in_a_loop
           fr1 == ParseAdvance(fr)
           fr2 == ParseRegister(fr, ret)
           fr3 == ParseAdvance(fr2)
           fr4 == [fr EXCEPT !.f.result = ret.result]
       IN Step(CASE fr.f.pc = 0 ->
                      IF ~Matches(fr.p.current_token, "KEYWORD", fr.f.case_keyword)
                      THEN Expected(fr, "Expected '" \o fr.f.case_keyword \o "'")
                      ELSE Call(fr1, 1, Method("expr", in_a_function, in_a_loop))
                 [] fr.f.pc = 1 ->
                      IF fr2.f.result.error # NoError THEN Return(fr2, fr2.f.result)
                      ELSE IF ~Matches(fr2.p.current_token, "KEYWORD", "THEN")
                      THEN Expected(fr2, "then_expected")
                      ELSE IF fr3.p.current_token.type = "NEWLINE"
                      THEN Call(fr3, 2, [condition |-> ret.node, pc |-> 0,
                                         fn |-> "parse_multiline_then"] @@ fr3.f)
                      ELSE Call(Let(fr3, [condition |-> ret.node]), 3,
                                Method("statement", in_a_function, in_a_loop))
                 [] fr.f.pc = 2 ->
                      IF ret.error THEN Return(fr4, ret.result)
                      ELSE ParseSuccess(fr4, AllCases(ret.cases, ret.else_case))
                 [] fr.f.pc = 3 ->
                      IF fr2.f.result.error # NoError THEN Return(fr2, fr2.f.result)
                      ELSE Call(Let(fr2, [cases |-> <<[condition |-> fr.f.condition,
                                                       node |-> ret.node,
                                                       should_return_none |-> FALSE]>>]),
                                4, Method("if_expr_b_or_c", in_a_function, in_a_loop))
                 [] fr.f.pc = 4 ->
                      IF fr2.f.result.error # NoError THEN Return(fr2, fr2.f.result)
                      ELSE ParseSuccess(fr2, AllCases(fr.f.cases \o ret.node.cases,
                                                      ret.node.else_case)))

\* the frame holds the ParseResult of if_expr_c
parse_multiline_else ==
    /\ Running("parse_multiline_else")
    /\ LET fr == Self
           fr1 == ParseRegister(fr, ret)
           Tuple(at, else_case, error) ==
               Return(at, [tuple |-> TRUE, else_case |-> else_case, error |-> error,
                           result |-> at.f.result])
       IN Step(IF fr.f.pc = 0
               THEN Call(ParseAdvance(fr), 1,
                         Method("statements", fr.f.in_a_function, fr.f.in_a_loop))
               ELSE IF fr1.f.result.error # NoError
               THEN Return(fr1, [tuple |-> FALSE, result |-> fr1.f.result])
               ELSE IF Matches(fr1.p.current_token, "KEYWORD", "END")
               THEN Tuple(ParseAdvance(fr1), ElseCase(ret.node, TRUE), FALSE)
               ELSE Tuple(ParseFailure(fr1,
                              InvalidSyntaxError(fr1.p.current_token.pos_start,
                                                 fr1.p.current_token.pos_end,
                                                 "end_expected")), NoNode, TRUE))

\* the frame holds the condition and the ParseResult of if_expr_cases; what is
\* returned is the tuple (cases, else_case, error)
parse_multiline_then ==
    /\ Running("parse_multiline_then")
    /\ LET fr == Self
           fr1 == ParseRegister(fr, ret)
           Tuple(at, cases, else_case, error) ==
               Return(at, [cases |-> cases, else_case |-> else_case, error |-> error,
                           result |-> at.f.result])
           cases == <<[condition |-> fr.f.condition, node |-> ret.node,
                       should_return_none |-> TRUE]>>
       IN Step(CASE fr.f.pc = 0 ->
                      Call(ParseAdvance(fr), 1,
                           Method("statements", fr.f.in_a_function, fr.f.in_a_loop))
                 [] fr.f.pc = 1 ->
                      IF fr1.f.result.error # NoError THEN Tuple(fr1, <<>>, NoNode, TRUE)
                      ELSE IF Matches(fr1.p.current_token, "KEYWORD", "END")
                      THEN Tuple(ParseAdvance(fr1), cases, NoNode, FALSE)
                      ELSE Call(Let(fr1, [cases |-> cases]), 2,
                                Method("if_expr_b_or_c", fr.f.in_a_function,
                                       fr.f.in_a_loop))
                 [] fr.f.pc = 2 ->
                      IF fr1.f.result.error # NoError THEN Tuple(fr1, <<>>, NoNode, TRUE)
                      ELSE Tuple(fr1, fr.f.cases \o ret.node.cases,
                                 ret.node.else_case, FALSE))

\* -------------------------------------------------------------- FOR, WHILE
for_expr ==
    /\ Running("for_expr")
    /\ LET fr == Self
           in_a_function == fr.f.in_a_function
           in_a_loop == fr.f.in_a_loop
           fr1 == ParseAdvance(fr)
           fr2 == ParseAdvance(fr1)
           fr3 == ParseAdvance(fr2)
           fr4 == ParseRegister(fr, ret)
           fr5 == ParseAdvance(fr4)
           \* the step value, if any, is parsed: THEN and the body
           Body(at) ==
               IF ~Matches(at.p.current_token, "KEYWORD", "THEN")
               THEN Expected(at, "then_expected")
               ELSE IF ParseAdvance(at).p.current_token.type # "NEWLINE"
               THEN Call(ParseAdvance(at), 4,
                         Method("statement", in_a_function, in_a_loop))
               ELSE Call(ParseAdvance(ParseAdvance(at)), 5,
                         Method("statements", in_a_function, in_a_loop))
           ForNode(should_return_none) ==
               [kind |-> "ForNode", var_name_token |-> fr.f.var_name,
                start_value_node |-> fr.f.start_value,
                end_value_node |-> fr.f.end_value,
                step_value_node |-> fr.f.step_value,
                body_node |-> ret.node, should_return_none |-> should_return_none,
                pos_start |-> fr.f.var_name.pos_start, pos_end |-> ret.node.pos_end]
       IN Step(CASE fr.f.pc = 0 ->
                      IF ~Matches(fr.p.current_token, "KEYWORD", "FOR")
                      THEN Expected(fr, "for_expected")
                      ELSE IF fr1.p.current_token.type # "IDENTIFIER"
                      THEN Expected(fr1, "identifier_expected")
                      ELSE IF fr2.p.current_token.type # "ASSIGN"
                      THEN Expected(fr2, "equal_expected")
                      ELSE Call(Let(fr3, [var_name |-> fr1.p.current_token]), 1,
                                Method("expr", in_a_function, in_a_loop))
                 [] fr.f.pc = 1 ->
                      IF fr4.f.result.error # NoError THEN Return(fr4, fr4.f.result)
                      ELSE IF ~Matches(fr4.p.current_token, "KEYWORD", "TO")
                      THEN Expected(fr4, "to_expected")
                      ELSE Call(Let(fr5, [start_value |-> ret.node]), 2,
                                Method("expr", in_a_function, in_a_loop))
                 [] fr.f.pc = 2 ->
                      IF fr4.f.result.error # NoError THEN Return(fr4, fr4.f.result)
                      ELSE IF Matches(fr4.p.current_token, "KEYWORD", "STEP")
                      THEN Call(Let(fr5, [end_value |-> ret.node]), 3,
                                Method("expr", in_a_function, in_a_loop))
                      ELSE Body(Let(fr4, [end_value |-> ret.node, step_value |-> NoNode]))
                 [] fr.f.pc = 3 ->
                      IF fr4.f.result.error # NoError THEN Return(fr4, fr4.f.result)
                      ELSE Body(Let(fr4, [step_value |-> ret.node]))
                 [] fr.f.pc = 4 ->
                      IF fr4.f.result.error # NoError THEN Return(fr4, fr4.f.result)
                      ELSE ParseSuccess(fr4, ForNode(FALSE))
                 [] fr.f.pc = 5 ->
                      IF fr4.f.result.error # NoError THEN Return(fr4, fr4.f.result)
                      ELSE IF ~Matches(fr4.p.current_token, "KEYWORD", "END")
                      THEN Expected(fr4, "end_expected")
                      ELSE ParseSuccess(fr5, ForNode(TRUE)))

while_expr ==
    /\ Running("while_expr")
    /\ LET fr == Self
           in_a_function == fr.f.in_a_function
           in_a_loop == fr.f.in_a_loop
           fr1 == ParseAdvance(fr)
           fr2 == ParseRegister(fr, ret)
           fr3 == ParseAdvance(fr2)
           fr4 == Let(fr3, [condition |-> ret.node])
           WhileNode(should_return_none) ==
               [kind |-> "WhileNode", condition_node |-> fr.f.condition,
                body_node |-> ret.node, should_return_none |-> should_return_none,
                pos_start |-> fr.f.condition.pos_start, pos_end |-> ret.node.pos_end]
       IN Step(CASE fr.f.pc = 0 ->
                      IF ~Matches(fr.p.current_token, "KEYWORD", "WHILE")
                      THEN Expected(fr, "while_expected")
                      ELSE Call(fr1, 1, Method("expr", in_a_function, in_a_loop))
                 [] fr.f.pc = 1 ->
                      IF fr2.f.result.error # NoError THEN Return(fr2, fr2.f.result)
                      ELSE IF ~Matches(fr2.p.current_token, "KEYWORD", "THEN")
                      THEN Expected(fr2, "then_expected")
                      ELSE IF fr3.p.current_token.type # "NEWLINE"
                      THEN Call(fr4, 2, Method("statement", in_a_function, in_a_loop))
                      ELSE Call(ParseAdvance(fr4), 3,
                                Method("statements", in_a_function, in_a_loop))
                 [] fr.f.pc = 2 ->
                      IF fr2.f.result.error # NoError THEN Return(fr2, fr2.f.result)
                      ELSE ParseSuccess(fr2, WhileNode(FALSE))
                 [] fr.f.pc = 3 ->
                      IF fr2.f.result.error # NoError THEN Return(fr2, fr2.f.result)
                      ELSE IF ~Matches(fr2.p.current_token, "KEYWORD", "END")
                      THEN Expected(fr2, "end_expected")
                      ELSE ParseSuccess(fr3, WhileNode(TRUE)))

\* --------------------------------------------------------------------- FUN
\* var_name_token is NoTok for an anonymous function (Python's None)
FuncDefNode(var_name_token, arg_name_tokens, body_node, should_auto_return) ==
    [kind |-> "FuncDefNode", var_name_token |-> var_name_token,
     arg_name_tokens |-> arg_name_tokens, body_node |-> body_node,
     should_auto_return |-> should_auto_return,
     pos_start |-> IF var_name_token.type # None THEN var_name_token.pos_start
                   ELSE IF Len(arg_name_tokens) > 0 THEN arg_name_tokens[1].pos_start
                   ELSE body_node.pos_start,
     pos_end |-> body_node.pos_end]

\* return (parsed_arrow, result, param_name_tokens, error): parsed_arrow and
\* error say whether that member is the ParseResult result or None
ArrowTuple(fr, parsed_arrow, param_name_tokens, error) ==
    Return(fr, [parsed_arrow |-> parsed_arrow, result |-> fr.f.result,
                param_name_tokens |-> param_name_tokens, error |-> error])

func_def ==
    /\ Running("func_def")
    /\ LET fr == Self
           fr1 == ParseAdvance(fr)
           named == fr1.p.current_token.type = "IDENTIFIER"
           var_name_token == IF named THEN fr1.p.current_token ELSE NoTok
           fr2 == IF named THEN ParseAdvance(fr1) ELSE fr1
           fr3 == ParseAdvance(fr2)
           fr4 == [fr EXCEPT !.f.result = ret.result]
           fr5 == ParseRegister(fr, ret)
       IN Step(CASE fr.f.pc = 0 ->
                      IF ~Matches(fr.p.current_token, "KEYWORD", "FUN")
                      THEN Expected(fr, "fun_expected")
                      ELSE IF fr2.p.current_token.type # "LPAREN"
                      THEN Expected(fr2, IF named THEN "lparen_expected"
                                         ELSE "identifier_lparen_expected")
                      ELSE IF fr3.p.current_token.type \notin {"IDENTIFIER", "RPAREN"}
                      THEN Expected(fr3, "identifier_rparen_expected")
                      ELSE Call(Let(fr3, [var_name_token |-> var_name_token]), 1,
                                [fn |-> "parse_params_and_arrow", pc |-> 0,
                                 result |-> fr3.f.result,
                                 var_name_token |-> var_name_token,
                                 param_name_tokens |-> <<>>])
                 [] fr.f.pc = 1 ->
                      IF ret.error \/ ret.parsed_arrow THEN Return(fr4, ret.result)
                      ELSE IF fr4.p.current_token.type # "NEWLINE"
                      THEN Expected(fr4, "arrow_NL_expected")
                      ELSE Call(Let(ParseAdvance(fr4),
                                    [param_name_tokens |-> ret.param_name_tokens]), 2,
                                Method("statements", TRUE, FALSE))
                 [] fr.f.pc = 2 ->
                      IF fr5.f.result.error # NoError THEN Return(fr5, fr5.f.result)
                      ELSE IF ~Matches(fr5.p.current_token, "KEYWORD", "END")
                      THEN Expected(fr5, "end_expected")
                      ELSE ParseSuccess(ParseAdvance(fr5),
                               FuncDefNode(fr.f.var_name_token, fr.f.param_name_tokens,
                                           ret.node, FALSE)))

\* the error tuple that duplicate_function_name returns, if it returns one
duplicate_function_name(function_name, names_list, fr) ==
    ArrowTuple(ParseFailure(fr,
                   InvalidSyntaxError(fr.p.current_token.pos_start,
                                      fr.p.current_token.pos_end,
                                      "Duplicate parameter '" \o function_name
                                      \o "'. A parameter cannot share the same name as the function name")),
               FALSE, <<>>, TRUE)

RECURSIVE ParamLoop(_, _)
\* parse_params_and_arrow from a parameter on: append it, check it against the
\* function name, advance, and go round the while loop on a comma
ParamLoop(fr, names_list) ==
    LET token == fr.p.current_token
        names1 == Append(names_list, token.value)
        fr1 == ParseAdvance([fr EXCEPT !.f.param_name_tokens = Append(@, token)])
        fr2 == ParseAdvance(fr1)
        Fail(at, details) ==
            ArrowTuple(ParseFailure(at,
                           InvalidSyntaxError(at.p.current_token.pos_start,
                                              at.p.current_token.pos_end, details)),
                       FALSE, <<>>, TRUE)
    IN IF \E i \in 1..Len(names1) : names1[i] = fr.f.var_name_token.value
       THEN duplicate_function_name(fr.f.var_name_token.value, names1, fr)
       ELSE IF fr1.p.current_token.type # "COMMA"
       THEN IF fr1.p.current_token.type # "RPAREN"
            THEN Fail(fr1, "comma_rparen_expected")
            ELSE TailCall(fr1, [fr1.f EXCEPT !.fn = "checkfor_parse_arrow"])
       ELSE IF fr2.p.current_token.type # "IDENTIFIER"
       THEN Fail(fr2, "identifier_expected")
       ELSE IF \E i \in 1..Len(names1) : names1[i] = fr2.p.current_token.value
       THEN Fail(fr2, "Duplicate parameter '" \o fr2.p.current_token.value
                      \o "' in function definition")
       ELSE ParamLoop(fr2, names1)

\* the frame holds the ParseResult of func_def, var_name_token and the list
\* param_name_tokens
parse_params_and_arrow ==
    /\ Running("parse_params_and_arrow")
    /\ LET fr == Self
       IN Step(IF fr.p.current_token.type = "RPAREN"
               THEN TailCall(fr, [fr.f EXCEPT !.fn = "checkfor_parse_arrow"])
               \* function_name = var_name_token.value, with var_name_token None
               ELSE IF fr.f.var_name_token.type = None
               THEN Raise(fr, "AttributeError")
               ELSE ParamLoop(fr, <<>>))

checkfor_parse_arrow ==
    /\ Running("checkfor_parse_arrow")
    /\ LET fr == Self
           fr1 == ParseAdvance(fr)
           fr2 == ParseRegister(fr, ret)
       IN Step(IF fr.f.pc = 0
               THEN IF fr1.p.current_token.type # "ARROW"
                    THEN ArrowTuple(fr1, FALSE, fr.f.param_name_tokens, FALSE)
                    ELSE Call(ParseAdvance(fr1), 1, Method("expr", TRUE, FALSE))
               ELSE IF fr2.f.result.error # NoError THEN ArrowTuple(fr2, FALSE, <<>>, TRUE)
               ELSE ArrowTuple([fr2 EXCEPT !.f.result.node =
                                    FuncDefNode(fr.f.var_name_token,
                                                fr.f.param_name_tokens, ret.node, TRUE)],
                               TRUE, fr.f.param_name_tokens, FALSE))

\* ---------------------------------------------------------------- RTResult
\* value and func_return_value are objects of the heap, 0 for Python's None
RTResult ==
    [value |-> 0, error |-> NoError, func_return_value |-> 0,
     loop_should_continue |-> FALSE, loop_should_break |-> FALSE]
\* result.register(res) as it would be if it added the signals of res to
\* those the result holds
RTRegister_adds(fr, res) ==
    [fr EXCEPT !.f.result.error = IF IsError(res.error) THEN res.error ELSE @,
               !.f.result.func_return_value =
                   IF res.func_return_value # 0 THEN res.func_return_value ELSE @,
               !.f.result.loop_should_continue = @ \/ res.loop_should_continue,
               !.f.result.loop_should_break = @ \/ res.loop_should_break]
\* result.register(res), whose value res.value is used by the caller
RTRegister(fr, res) ==
    [fr EXCEPT !.f.result.error = res.error,
               !.f.result.func_return_value = res.func_return_value,
               !.f.result.loop_should_continue = res.loop_should_continue,
               !.f.result.loop_should_break = res.loop_should_break]
should_return(res) ==
    \/ IsError(res.error)
    \/ res.func_return_value # 0
    \/ res.loop_should_continue
    \/ res.loop_should_break
\* return result.success(value) / return result.failure(error)
RTSuccess(fr, value) == Return(fr, [RTResult EXCEPT !.value = value])
RTFailure(fr, error) == Return(fr, [RTResult EXCEPT !.error = error])

\* ------------------------------------------------------------------ values
\* An object of a Value class.  The field type is its class; value is kept
\* as num for a Number and str for a String; elements is the Python list of a
\* List, an index of heap.lists, which copies of the List share; context is
\* an index of heap.contexts, 0 for None.
Value ==
    [type |-> None, num |-> NoNum, str |-> "", elements |-> 0, name |-> "",
     body_node |-> NoNode, arg_names |-> <<>>, should_auto_return |-> FALSE,
     pos_start |-> NoPos, pos_end |-> NoPos, context |-> 0]
Number(value) == [Value EXCEPT !.type = "Number", !.num = value]
String(value) == [Value EXCEPT !.type = "String", !.str = value]
List(elements) == [Value EXCEPT !.type = "List", !.elements = elements]
\* BaseFunction.__init__: name or "<anonymous>"
Function(name, body_node, arg_names, should_auto_return) ==
    [Value EXCEPT !.type = "Function",
                  !.name = IF name = None THEN "<anonymous>" ELSE name,
                  !.body_node = body_node, !.arg_names = arg_names,
                  !.should_auto_return = should_auto_return]
BuiltInFunction(name) == [Value EXCEPT !.type = "BuiltInFunction", !.name = name]

\* a new object; it is the newest one of the heap
New(fr, obj) == [fr EXCEPT !.h.objs = Append(@, obj)]
Newest(fr) == Len(fr.h.objs)
\* a new Python list
NewList(fr, elements) == [fr EXCEPT !.h.lists = Append(@, elements)]
\* value.copy() as it would be if a List copied its elements to a list of
\* its own
Copy_with_own_elements(fr, value) ==
    IF fr.h.objs[value].type = "List"
    THEN LET to == NewList(fr, fr.h.lists[fr.h.objs[value].elements])
         IN New(to, [fr.h.objs[value] EXCEPT !.elements = Len(to.h.lists)])
    ELSE New(fr, fr.h.objs[value])
\* value.copy(): every class copies its fields, a List its list by reference
Copy(fr, value) == New(fr, fr.h.objs[value])
\* value.set_pos(pos_start, pos_end), on the object itself
set_pos(fr, value, pos_start, pos_end) ==
    [fr EXCEPT !.h.objs[value].pos_start = pos_start,
               !.h.objs[value].pos_end = pos_end]
\* value.set_context(context); a function that has a context keeps it
set_context(fr, value, context) ==
    IF fr.h.objs[value].type \in {"Function", "BuiltInFunction"}
       /\ fr.h.objs[value].context # 0
    THEN fr
    ELSE [fr EXCEPT !.h.objs[value].context = context]
\* value.is_true()
is_true(obj) ==
    CASE obj.type = "Number" -> obj.num.n # 0
      [] obj.type = "String" -> Len(obj.str) > 0
      [] OTHER -> FALSE
\* Value.illegal_operation(self, other)
illegal_operation(self, other) ==
    RTError(self.pos_start, other.pos_end, "Illegal operation", self.context)

\* ----------------------------------------------------- Context, SymbolTable
Context(display_name, parent, parent_entry_pos) ==
    [display_name |-> display_name, parent |-> parent,
     parent_entry_pos |-> parent_entry_pos, symbol_table |-> 0]
SymbolTable(parent) == [symbols |-> <<>>, parent |-> parent]
RECURSIVE SymbolTableGet(_, _, _)
\* SymbolTable.get: 0 when no table of the chain holds the name
SymbolTableGet(h, table, name) ==
    LET self == h.symbol_tables[table]
    IN IF name \in DOMAIN self.symbols THEN self.symbols[name]
       ELSE IF self.parent # 0 THEN SymbolTableGet(h, self.parent, name)
       ELSE 0
\* context.symbol_table.set(name, value)
SymbolTableSet(fr, context, name, value) ==
    [fr EXCEPT !.h.symbol_tables[fr.h.contexts[context].symbol_table].symbols =
                   (name :> value) @@ @]
\* context.symbol_table.get(name)
Lookup(fr, context, name) ==
    SymbolTableGet(fr.h, fr.h.contexts[context].symbol_table, name)

\* ------------------------------------------------------------- str(), ints
RECURSIVE IntStr(_)
\* str(n) of an int
IntStr(n) ==
    IF n < 0 THEN "-" \o IntStr(-n)
    ELSE IF n < 10 THEN SubSeq("0123456789", n + 1, n + 1)
    ELSE IntStr(n \div 10) \o SubSeq("0123456789", (n % 10) + 1, (n % 10) + 1)
RECURSIVE Fraction(_, _, _)
\* the digits after the point of r/d, to the places a double holds
Fraction(r, d, places) ==
    IF r = 0 \/ places = 0 THEN ""
    ELSE IntStr((10 * r) \div d) \o Fraction((10 * r) % d, d, places - 1)
RECURSIVE Zeros(_)
\* "0" * k
Zeros(k) ==
    IF k <= 0 THEN ""
    ELSE LET half == Zeros(k \div 2)
         IN half \o half \o (IF k % 2 = 1 THEN "0" ELSE "")
\* str(self.value) of a Number: an int in full; a float as repr() writes it,
\* with an exponent when the first digit is 16 or more places before the
\* point or more than 4 places after it
NumStr(num) ==
    LET whole == Abs(num.n) \div num.d
        frac == Fraction(Abs(num.n) % num.d, num.d,
                         IF whole = 0 THEN 16 ELSE 16 - Len(IntStr(whole)))
        sign == IF num.n < 0 THEN "-" ELSE ""
        all == IntStr(Abs(num.n))
        kept == CHOOSE j \in 1..Len(all) :
                    /\ SubSeq(all, j, j) # "0"
                    /\ \A i \in (j + 1)..Len(all) : SubSeq(all, i, i) = "0"
        digits == SubSeq(all, 1, kept)
        first == num.e + Len(all) - 1
    IN IF num = Inf THEN "inf"
       ELSE IF ~num.f THEN IntStr(num.n) \o Zeros(num.e)
       ELSE IF num.e = 0
       THEN sign \o IntStr(whole) \o "." \o (IF frac = "" THEN "0" ELSE frac)
       ELSE IF first >= 16 \/ first < -4
       THEN sign \o SubSeq(digits, 1, 1)
            \o (IF Len(digits) > 1 THEN "." \o Tail(digits) ELSE "")
            \o (IF first < 0 THEN "e-" ELSE "e+")
            \o (IF Abs(first) < 10 THEN "0" ELSE "") \o IntStr(Abs(first))
       ELSE IF first >= 0
       THEN sign \o all \o Zeros(num.e) \o ".0"
       ELSE sign \o "0." \o Zeros(-first - 1) \o digits
RECURSIVE Str(_, _, _)
RECURSIVE Join(_, _, _)
\* ", ".join([str(x) for x in elements]), as <<text>>; depth counts the
\* nested lists left before Python gives up with a RecursionError, which
\* makes it <<>>
Join(h, elements, depth) ==
    IF elements = <<>> THEN <<"">>
    ELSE LET head == Str(h, elements[1], depth)
             tail == Join(h, Tail(elements), depth)
         IN IF head = <<>> \/ tail = <<>> THEN <<>>
            ELSE IF Len(elements) = 1 THEN head
            ELSE <<head[1] \o ", " \o tail[1]>>
\* str(value), as <<text>>: __str__, and __repr__ for the functions
Str(h, value, depth) ==
    LET self == h.objs[value]
    IN CASE self.type = "Number" -> <<NumStr(self.num)>>
         [] self.type = "String" -> <<self.str>>
         [] self.type = "List" ->
              IF depth = 0 THEN <<>> ELSE Join(h, h.lists[self.elements], depth - 1)
         [] self.type = "Function" -> <<"<function " \o self.name \o ">">>
         [] OTHER -> <<"<built-in function " \o self.name \o ">">>

\* ----------------------------------------------------------- Error.as_string
RECURSIVE generate_traceback(_, _, _)
\* the lines of RTError.generate_traceback, outermost context first
generate_traceback(h, pos, context) ==
    IF context = 0 THEN ""
    ELSE generate_traceback(h, h.contexts[context].parent_entry_pos,
                            h.contexts[context].parent)
         \o "  File " \o pos.filename \o ", line " \o IntStr(pos.linenum + 1)
         \o ", in " \o h.contexts[context].display_name \o "\n"
\* Error.as_string and RTError.as_string; the excerpt of the source text that
\* misc.string_with_arrows draws is left as a mark
as_string(h, error) ==
    IF error.name = "Runtime Error"
    THEN "Traceback (most recent call last):\n"
         \o generate_traceback(h, error.pos_start, error.context)
         \o error.name \o ": " \o error.details \o "\n\n" \o "<string_with_arrows>"
    ELSE error.name \o ": " \o error.details \o "\n\n" \o "File "
         \o error.pos_start.filename \o ", line "
         \o IntStr(error.pos_start.linenum + 1) \o "\n\n" \o "<string_with_arrows>"

\* ------------------------------------------------------ Number arithmetic
\* the number n/d in lowest terms
Rat(n, d, f) ==
    LET g == Gcd(Abs(n), Abs(d))
    IN [n |-> (IF d < 0 THEN -n ELSE n) \div g, d |-> Abs(d) \div g, f |-> f,
        e |-> 0]
RECURSIVE IntPow(_, _)
IntPow(b, k) == IF k = 0 THEN 1 ELSE b * IntPow(b, k - 1)
\* self.value <op> other.value of two Numbers, the divisor not zero.  A
\* float is kept as the exact fraction; exc names the exception Python
\* raises.  A power with a fractional exponent has no fraction and is given
\* up on as "NotAFraction".
Arith(op, x, y) ==
    LET f == x.f \/ y.f
        diff == x.n * y.d - y.n * x.d
        quot == Rat(x.n * y.d, x.d * y.n, f)
        floor == quot.n \div quot.d
        Bool(b) == PyInt(IF b THEN 1 ELSE 0)
        \* int(): towards zero
        Trunc(z) == PyInt(IF z.n >= 0 THEN z.n \div z.d ELSE -((-z.n) \div z.d))
        Is(num) == [num |-> num, exc |-> NoExc]
    IN CASE op = "PLUS" -> Is(Rat(x.n * y.d + y.n * x.d, x.d * y.d, f))
         [] op = "MINUS" -> Is(Rat(diff, x.d * y.d, f))
         [] op = "MULTIPLY" -> Is(Rat(x.n * y.n, x.d * y.d, f))
         [] op = "DIVIDE" -> Is(Rat(x.n * y.d, x.d * y.n, TRUE))
         [] op = "MODULUS" ->
              Is(Rat(x.n * y.d - floor * y.n * x.d, x.d * y.d, f))
         [] op = "POWER" ->
              IF y.d # 1 THEN [num |-> NoNum, exc |-> "NotAFraction"]
              ELSE IF y.n >= 0
              THEN Is(Rat(IntPow(x.n, y.n), IntPow(x.d, y.n), f))
              ELSE IF x.n = 0 THEN [num |-> NoNum, exc |-> "ZeroDivisionError"]
              ELSE Is(Rat(IntPow(x.d, -y.n), IntPow(x.n, -y.n), TRUE))
         [] op = "EQUAL_TO" -> Is(Bool(diff = 0))
         [] op = "NOT_EQUAL_TO" -> Is(Bool(diff # 0))
         [] op = "LESS_THAN" -> Is(Bool(diff < 0))
         [] op = "GREATER_THAN" -> Is(Bool(diff > 0))
         [] op = "LESS_THAN_AND_EQUALTO" -> Is(Bool(diff <= 0))
         [] op = "GREATER_THAN_AND_EQUALTO" -> Is(Bool(diff >= 0))
         [] op = "AND" -> Is(Trunc(IF x.n = 0 THEN x ELSE y))
         [] op = "OR" -> Is(Trunc(IF x.n # 0 THEN x ELSE y))

\* ------------------------------------------- the operations of the values
\* left.<method>(right), the method that visit_BinOpNode picks for the
\* operator op: the pair (value, error), the heap after it and the exception
\* that Python raises in it.  A class without the method has Value's, the
\* illegal operation; String defines added_to and, under a name that no
\* operator picks, multplied_by.
Operate(fr, op, left, right) ==
    LET self == fr.h.objs[left]
        other == fr.h.objs[right]
        Out(to, value, error, raised) ==
            [fr |-> to, value |-> value, error |-> error, exc |-> raised]
        Illegal == Out(fr, 0, illegal_operation(self, other), NoExc)
        Made(obj) ==
            LET to == New(fr, [obj EXCEPT !.context = self.context])
            IN Out(to, Newest(to), NoError, NoExc)
        calc == Arith(op, self.num, other.num)
        \* new_list = self.copy(), and new_list.elements with an index in it
        new_list == Copy(fr, left)
        elements == fr.h.lists[self.elements]
        index == IF other.num.n < 0 THEN other.num.n + Len(elements)
                 ELSE other.num.n
        IndexError(details) ==
            RTError(other.pos_start, other.pos_end, details, self.context)
    IN CASE self.type = "Number" ->
              IF other.type # "Number" THEN Illegal
              ELSE IF op \in {"DIVIDE", "MODULUS"} /\ other.num.n = 0
              THEN Out(fr, 0, RTError(other.pos_start, other.pos_end,
                                      IF op = "DIVIDE" THEN "division_by_zero"
                                      ELSE "modulus_by_zero", self.context), NoExc)
              ELSE IF calc.exc # NoExc THEN Out(fr, 0, NoError, calc.exc)
              ELSE Made(Number(calc.num))
         [] self.type = "String" ->
              IF op = "PLUS" /\ other.type = "String"
              THEN Made(String(self.str \o other.str))
              ELSE Illegal
         [] self.type = "List" /\ op = "PLUS" ->
              Out([new_list EXCEPT !.h.lists[self.elements] = Append(@, right)],
                  Newest(new_list), NoError, NoExc)
         [] self.type = "List" /\ op = "MULTIPLY" /\ other.type = "List" ->
              Out([new_list EXCEPT !.h.lists[self.elements] =
                                       @ \o fr.h.lists[other.elements]],
                  Newest(new_list), NoError, NoExc)
         [] self.type = "List" /\ op \in {"MINUS", "DIVIDE"}
                /\ other.type = "Number" ->
              IF other.num.d # 1 \/ other.num.f
              THEN Out(IF op = "MINUS" THEN new_list ELSE fr, 0, NoError, "TypeError")
              ELSE IF index < 0 \/ index >= Len(elements)
              THEN IF op = "MINUS"
                   THEN Out(new_list, 0, IndexError("list_index_error"), NoExc)
                   ELSE Out(fr, 0, IndexError("fetch_index_error"), NoExc)
              ELSE IF op = "MINUS"
              THEN Out([new_list EXCEPT !.h.lists[self.elements] =
                            SubSeq(@, 1, index) \o SubSeq(@, index + 2, Len(@))],
                       Newest(new_list), NoError, NoExc)
              ELSE Out(fr, elements[index + 1], NoError, NoExc)
         [] OTHER -> Illegal

\* ------------------------------------------------------------- Interpreter
\* Interpreter.visit(node, context): the frame of the visit_ method of the
\* node's class, with its local result = RTResult()
Visit(node, context) ==
    [fn |-> "visit_" \o node.kind, pc |-> 0, node |-> node, context |-> context,
     result |-> RTResult]
\* a new object of the evaluated node: .set_context(context).set_pos(...)
Made(fr, obj) ==
    LET to == New(fr, [obj EXCEPT !.context = fr.f.context,
                                  !.pos_start = fr.f.node.pos_start,
                                  !.pos_end = fr.f.node.pos_end])
    IN RTSuccess(to, Newest(to))

visit_NumberNode ==
    /\ Running("visit_NumberNode")
    /\ Step(Made(Self, Number(Top.node.token.num)))

visit_StringNode ==
    /\ Running("visit_StringNode")
    /\ Step(Made(Self, String(Top.node.token.value)))

\* visit_ListNode as it would be without "if result.should_return(): return
\* result" after an element: the elements after a failed one are evaluated
visit_ListNode_goes_on ==
    /\ Running("visit_ListNode")
    /\ LET fr == Self
           node == fr.f.node
           fr1 == [RTRegister(fr, ret) EXCEPT !.f.elements = Append(@, ret.value)]
           Loop(at) ==
               IF Len(at.f.elements) < Len(node.element_nodes)
               THEN Call(at, 1, Visit(node.element_nodes[Len(at.f.elements) + 1],
                                      at.f.context))
               ELSE LET to == NewList(at, at.f.elements)
                    IN Made(to, List(Len(to.h.lists)))
       IN Step(IF fr.f.pc = 0 THEN Loop(Let(fr, [elements |-> <<>>]))
               ELSE Loop(fr1))

visit_ListNode ==
    /\ Running("visit_ListNode")
    /\ LET fr == Self
           node == fr.f.node
           fr1 == [RTRegister(fr, ret) EXCEPT !.f.elements = Append(@, ret.value)]
           \* the next round of the for loop, or the List after its last one
           Loop(at) ==
               IF Len(at.f.elements) < Len(node.element_nodes)
               THEN Call(at, 1, Visit(node.element_nodes[Len(at.f.elements) + 1],
                                      at.f.context))
               ELSE LET to == NewList(at, at.f.elements)
                    IN Made(to, List(Len(to.h.lists)))
       IN Step(IF fr.f.pc = 0 THEN Loop(Let(fr, [elements |-> <<>>]))
               ELSE IF should_return(fr1.f.result) THEN Return(fr1, fr1.f.result)
               ELSE Loop(fr1))

\* visit_VarAccessNode as it would be if "if not value" took a value for
\* missing when it is zero or empty
visit_VarAccessNode_by_truth ==
    /\ Running("visit_VarAccessNode")
    /\ LET fr == Self
           node == fr.f.node
           var_name == node.token.value
           value == Lookup(fr, fr.f.context, var_name)
           copy == Copy(fr, value)
           empty == CASE fr.h.objs[value].type = "Number" -> fr.h.objs[value].num.n = 0
                      [] fr.h.objs[value].type = "String" -> fr.h.objs[value].str = ""
                      [] fr.h.objs[value].type = "List" ->
                           fr.h.lists[fr.h.objs[value].elements] = <<>>
                      [] OTHER -> FALSE
       IN Step(IF value = 0 \/ empty
               THEN RTFailure(fr, RTError(node.pos_start, node.pos_end,
                                          "'" \o var_name \o "' is not defined",
                                          fr.f.context))
               ELSE RTSuccess(set_context(set_pos(copy, Newest(copy), node.pos_start,
                                                  node.pos_end),
                                          Newest(copy), fr.f.context),
                              Newest(copy)))

visit_VarAccessNode ==
    /\ Running("visit_VarAccessNode")
    /\ LET fr == Self
           node == fr.f.node
           var_name == node.token.value
           value == Lookup(fr, fr.f.context, var_name)
           copy == Copy(fr, value)
       IN Step(IF value = 0
               THEN RTFailure(fr, RTError(node.pos_start, node.pos_end,
                                          "'" \o var_name \o "' is not defined",
                                          fr.f.context))
               ELSE RTSuccess(set_context(set_pos(copy, Newest(copy), node.pos_start,
                                                  node.pos_end),
                                          Newest(copy), fr.f.context),
                              Newest(copy)))

visit_VarAssignNode ==
    /\ Running("visit_VarAssignNode")
    /\ LET fr == Self
           node == fr.f.node
           fr1 == RTRegister(fr, ret)
       IN Step(IF fr.f.pc = 0 THEN Call(fr, 1, Visit(node.value_node, fr.f.context))
               ELSE IF should_return(fr1.f.result) THEN Return(fr1, fr1.f.result)
               ELSE RTSuccess(SymbolTableSet(fr1, fr.f.context,
                                             node.var_name_token.value, ret.value),
                              ret.value))

visit_BinOpNode ==
    /\ Running("visit_BinOpNode")
    /\ LET fr == Self
           node == fr.f.node
           fr1 == RTRegister(fr, ret)
           op == IF node.operator_token.type = "KEYWORD" THEN node.operator_token.value
                 ELSE node.operator_token.type
           calc == Operate(fr1, op, fr.f.left, ret.value)
       IN Step(CASE fr.f.pc = 0 -> Call(fr, 1, Visit(node.left_node, fr.f.context))
                 [] fr.f.pc = 1 ->
                      IF should_return(fr1.f.result) THEN Return(fr1, fr1.f.result)
                      ELSE Call(Let(fr1, [left |-> ret.value]), 2,
                                Visit(node.right_node, fr.f.context))
                 [] fr.f.pc = 2 ->
                      IF should_return(fr1.f.result) THEN Return(fr1, fr1.f.result)
                      ELSE IF calc.exc # NoExc THEN Raise(calc.fr, calc.exc)
                      ELSE IF IsError(calc.error) THEN RTFailure(calc.fr, calc.error)
                      ELSE RTSuccess(set_pos(calc.fr, calc.value, node.pos_start,
                                             node.pos_end), calc.value))

visit_UnaryOpNode ==
    /\ Running("visit_UnaryOpNode")
    /\ LET fr == Self
           node == fr.f.node
           fr1 == RTRegister(fr, ret)
           number == ret.value
           self == fr1.h.objs[number]
           \* number.multiplied_by(Number(-1))
           minus_one == New(fr1, Number(PyInt(-1)))
           negated == Operate(minus_one, "MULTIPLY", number, Newest(minus_one))
           \* number.notted(), which is Value's unless number is a Number
           not_made == New(fr1, [Number(PyInt(IF self.num.n = 0 THEN 1 ELSE 0))
                                 EXCEPT !.context = self.context])
           notted == IF self.type = "Number"
                     THEN [fr |-> not_made, value |-> Newest(not_made),
                           error |-> NoError, exc |-> NoExc]
                     ELSE [fr |-> fr1, value |-> 0,
                           error |-> illegal_operation(self, self), exc |-> NoExc]
           calc == IF node.operator_token.type = "MINUS" THEN negated
                   ELSE IF Matches(node.operator_token, "KEYWORD", "NOT") THEN notted
                   ELSE [fr |-> fr1, value |-> number, error |-> NoError,
                         exc |-> NoExc]
       IN Step(IF fr.f.pc = 0 THEN Call(fr, 1, Visit(node.node, fr.f.context))
               ELSE IF should_return(fr1.f.result) THEN Return(fr1, fr1.f.result)
               ELSE IF calc.exc # NoExc THEN Raise(calc.fr, calc.exc)
               ELSE IF IsError(calc.error) THEN RTFailure(calc.fr, calc.error)
               ELSE RTSuccess(set_pos(calc.fr, calc.value, node.pos_start,
                                      node.pos_end), calc.value))

\* Number.none, Number.false, Number.true: the first objects of the heap
Number_none == 1
Number_false == 2
Number_true == 3

visit_IfNode ==
    /\ Running("visit_IfNode")
    /\ LET fr == Self
           node == fr.f.node
           fr1 == RTRegister(fr, ret)
           \* the next round of the loop over node.cases, or the else case
           Loop(at) ==
               IF at.f.case <= Len(node.cases)
               THEN Call(at, 1, Visit(node.cases[at.f.case].condition, at.f.context))
               ELSE IF node.else_case.kind # None
               THEN Call(Let(at, [should_return_none |->
                                      node.else_case.should_return_none]), 2,
                         Visit(node.else_case.node, at.f.context))
               ELSE RTSuccess(at, Number_none)
       IN Step(CASE fr.f.pc = 0 -> Loop(Let(fr, [case |-> 1]))
                 [] fr.f.pc = 1 ->
                      IF should_return(fr1.f.result) THEN Return(fr1, fr1.f.result)
                      ELSE IF is_true(fr1.h.objs[ret.value])
                      THEN Call(Let(fr1, [should_return_none |->
                                              node.cases[fr.f.case].should_return_none]),
                                2, Visit(node.cases[fr.f.case].node, fr.f.context))
                      ELSE Loop([fr1 EXCEPT !.f.case = @ + 1])
                 [] fr.f.pc = 2 ->
                      IF should_return(fr1.f.result) THEN Return(fr1, fr1.f.result)
                      ELSE RTSuccess(fr1, IF fr.f.should_return_none THEN Number_none
                                          ELSE ret.value))

\* Python's order of two strings: by the first character that differs
RECURSIVE StrLess(_, _)
StrLess(a, b) ==
    LET Ord(ch) == CHOOSE code \in {9, 10} \cup (32..126) :
                       code # 96 /\ Chr(code) = ch
    IN IF b = "" THEN FALSE
       ELSE IF a = "" THEN TRUE
       ELSE IF SubSeq(a, 1, 1) = SubSeq(b, 1, 1) THEN StrLess(Tail(a), Tail(b))
       ELSE Ord(SubSeq(a, 1, 1)) < Ord(SubSeq(b, 1, 1))

\* the return of a loop as it would be if it returned its result object
\* with the value set, without the reset of success: a signal stays on it
LoopValue_keeps_signal(at) ==
    LET to == NewList(at, at.f.elements)
        made == New(to, [List(Len(to.h.lists)) EXCEPT
                             !.context = at.f.context,
                             !.pos_start = at.f.node.pos_start,
                             !.pos_end = at.f.node.pos_end])
    IN IF at.f.node.should_return_none
       THEN Return(at, [at.f.result EXCEPT !.value = Number_none])
       ELSE Return(made, [at.f.result EXCEPT !.value = Newest(made)])
\* return result.success(Number.none if node.should_return_none else
\* List(elements).set_context(context).set_pos(...)) of a loop
LoopValue(at) ==
    LET to == NewList(at, at.f.elements)
    IN IF at.f.node.should_return_none THEN RTSuccess(at, Number_none)
       ELSE Made(to, List(Len(to.h.lists)))

\* the condition of a FOR loop as it would be if it always counted upwards
condition_upwards(i, end_value, step_value) ==
    Arith("LESS_THAN", i, end_value).num.n # 0
\* the condition of a FOR loop as it would be if a step of zero counted
\* downwards
condition_zero_downwards(i, end_value, step_value) ==
    Arith(IF step_value.n > 0 THEN "LESS_THAN" ELSE "GREATER_THAN",
          i, end_value).num.n # 0
\* condition = i < end_value.value if step_value.value >= 0
\*             else i > end_value.value
condition(i, end_value, step_value) ==
    Arith(IF step_value.n >= 0 THEN "LESS_THAN" ELSE "GREATER_THAN",
          i, end_value).num.n # 0

visit_ForNode ==
    /\ Running("visit_ForNode")
    /\ Top.pc = 4 => Top.rounds < MaxIter
    /\ LET fr == Self
           node == fr.f.node
           fr1 == RTRegister(fr, ret)
           one == New(fr1, Number(PyInt(1)))
           \* the while loop from its head; i is start_value.value at first
           Loop(at) ==
               LET start == at.h.objs[at.f.start_value]
                   end == at.h.objs[at.f.end_value]
                   step == at.h.objs[at.f.step_value]
                   i == at.f.i
                   named == New(at, Number(i))
                   bound == SymbolTableSet(named, at.f.context,
                                           node.var_name_token.value, Newest(named))
               IN IF step.type \notin {"Number", "String"}
                  THEN Raise(at, "AttributeError")
                  ELSE IF step.type = "String" THEN Raise(at, "TypeError")
                  ELSE IF end.type \notin {"Number", "String"}
                  THEN Raise(at, "AttributeError")
                  ELSE IF start.type # end.type THEN Raise(at, "TypeError")
                  ELSE IF start.type = "String"
                  \* the strings are compared; the variable is set to
                  \* Number(i) and i += step_value.value is a TypeError
                  THEN IF (step.num.n >= 0 /\ StrLess(start.str, end.str))
                          \/ (step.num.n < 0 /\ StrLess(end.str, start.str))
                       THEN Raise([bound EXCEPT !.h.objs[Newest(named)].str =
                                                    start.str], "TypeError")
                       ELSE LoopValue(at)
                  ELSE IF ~condition(i, end.num, step.num)
                  THEN LoopValue(at)
                  ELSE Call([bound EXCEPT !.f.i = Arith("PLUS", i, step.num).num,
                                          !.f.rounds = @ + 1], 4,
                            Visit(node.body_node, at.f.context))
           \* the loop is entered with the three values
           Enter(at) ==
               IF at.h.objs[at.f.start_value].type \notin {"Number", "String"}
               THEN Raise(at, "AttributeError")
               ELSE Loop(Let(at, [elements |-> <<>>, rounds |-> 0,
                                  i |-> at.h.objs[at.f.start_value].num]))
       IN Step(CASE fr.f.pc = 0 ->
                      Call(fr, 1, Visit(node.start_value_node, fr.f.context))
                 [] fr.f.pc = 1 ->
                      IF should_return(fr1.f.result) THEN Return(fr1, fr1.f.result)
                      ELSE Call(Let(fr1, [start_value |-> ret.value]), 2,
                                Visit(node.end_value_node, fr.f.context))
                 [] fr.f.pc = 2 ->
                      IF should_return(fr1.f.result) THEN Return(fr1, fr1.f.result)
                      ELSE IF node.step_value_node.kind # None
                      THEN Call(Let(fr1, [end_value |-> ret.value]), 3,
                                Visit(node.step_value_node, fr.f.context))
                      ELSE Enter(Let(one, [end_value |-> ret.value,
                                           step_value |-> Newest(one)]))
                 [] fr.f.pc = 3 ->
                      IF should_return(fr1.f.result) THEN Return(fr1, fr1.f.result)
                      ELSE Enter(Let(fr1, [step_value |-> ret.value]))
                 [] fr.f.pc = 4 ->
                      IF should_return(fr1.f.result)
                         /\ ~fr1.f.result.loop_should_continue
                         /\ ~fr1.f.result.loop_should_break
                      THEN Return(fr1, fr1.f.result)
                      ELSE IF fr1.f.result.loop_should_continue THEN Loop(fr1)
                      ELSE IF fr1.f.result.loop_should_break THEN LoopValue(fr1)
                      ELSE Loop([fr1 EXCEPT !.f.elements = Append(@, ret.value)]))

visit_WhileNode ==
    /\ Running("visit_WhileNode")
    /\ Top.pc = 2 => Top.rounds < MaxIter
    /\ LET fr == Self
           node == fr.f.node
           fr1 == RTRegister(fr, ret)
           Loop(at) == Call(at, 1, Visit(node.condition_node, at.f.context))
       IN Step(CASE fr.f.pc = 0 -> Loop(Let(fr, [elements |-> <<>>, rounds |-> 0]))
                 [] fr.f.pc = 1 ->
                      IF should_return(fr1.f.result) THEN Return(fr1, fr1.f.result)
                      ELSE IF ~is_true(fr1.h.objs[ret.value]) THEN LoopValue(fr1)
                      ELSE Call([fr1 EXCEPT !.f.rounds = @ + 1], 2,
                                Visit(node.body_node, fr.f.context))
                 [] fr.f.pc = 2 ->
                      IF should_return(fr1.f.result)
                         /\ ~fr1.f.result.loop_should_continue
                         /\ ~fr1.f.result.loop_should_break
                      THEN Return(fr1, fr1.f.result)
                      ELSE IF fr1.f.result.loop_should_continue THEN Loop(fr1)
                      ELSE IF fr1.f.result.loop_should_break THEN LoopValue(fr1)
                      ELSE Loop([fr1 EXCEPT !.f.elements = Append(@, ret.value)]))

visit_FuncDefNode ==
    /\ Running("visit_FuncDefNode")
    /\ LET fr == Self
           node == fr.f.node
           func_name == IF node.var_name_token.type # None
                        THEN node.var_name_token.value ELSE None
           arg_names == [k \in 1..Len(node.arg_name_tokens) |->
                             node.arg_name_tokens[k].value]
           made == Made(fr, Function(func_name, node.body_node, arg_names,
                                     node.should_auto_return))
       IN Step(IF func_name = None THEN made
               ELSE [made EXCEPT
                         !.heap = SymbolTableSet([fr EXCEPT !.h = made.heap],
                                                 fr.f.context, func_name,
                                                 made.ret.value).h])

\* generate_new_context as it would be with the scope of the caller as the
\* parent of the new table; the caller is the visit_CallNode below
generate_new_context_of_caller(fr, self) ==
    LET caller == stack[Len(stack) - 1].context
    IN [fr EXCEPT !.h.contexts =
                      Append(@, [Context(self.name, caller, self.pos_start)
                                 EXCEPT !.symbol_table = Len(fr.h.symbol_tables) + 1]),
                  !.h.symbol_tables =
                      Append(@, SymbolTable(fr.h.contexts[caller].symbol_table))]
\* generate_new_context as it would be without a symbol table of its own:
\* the new context works on the table of the defining scope
generate_new_context_on_table_of_parent(fr, self) ==
    [fr EXCEPT !.h.contexts =
                   Append(@, [Context(self.name, self.context, self.pos_start)
                              EXCEPT !.symbol_table =
                                         fr.h.contexts[self.context].symbol_table])]
\* BaseFunction.generate_new_context: the heap with the new context, the
\* newest one, and its new symbol table
generate_new_context(fr, self) ==
    [fr EXCEPT !.h.contexts =
                   Append(@, [Context(self.name, self.context, self.pos_start)
                              EXCEPT !.symbol_table = Len(fr.h.symbol_tables) + 1]),
               !.h.symbol_tables =
                   Append(@, SymbolTable(fr.h.contexts[self.context].symbol_table))]
\* check_params as it would be without the test for too few args
check_params_too_many_only(h, self, function, param_names, args) ==
    IF Len(args) > Len(param_names)
    THEN RTError(self.pos_start, self.pos_end,
                 IntStr(Len(args) - Len(param_names))
                 \o " too many args passed into " \o Str(h, function, 1)[1],
                 self.context)
    ELSE NoError
\* BaseFunction.check_params: the error of the RTResult it returns
check_params(h, self, function, param_names, args) ==
    LET name == Str(h, function, 1)[1]
    IN IF Len(args) > Len(param_names)
       THEN RTError(self.pos_start, self.pos_end,
                    IntStr(Len(args) - Len(param_names))
                    \o " too many args passed into " \o name, self.context)
       ELSE IF Len(args) < Len(param_names)
       THEN RTError(self.pos_start, self.pos_end,
                    IntStr(Len(param_names) - Len(args))
                    \o " too few args passed into " \o name, self.context)
       ELSE NoError
RECURSIVE populate_params(_, _, _, _)
\* BaseFunction.populate_params, from the first of the args
populate_params(fr, param_names, args, execution_context) ==
    IF args = <<>> THEN fr
    ELSE populate_params(
             SymbolTableSet(set_context(fr, args[1], execution_context),
                            execution_context, param_names[1], args[1]),
             Tail(param_names), Tail(args), execution_context)

visit_CallNode ==
    /\ Running("visit_CallNode")
    /\ LET fr == Self
           node == fr.f.node
           fr1 == RTRegister(fr, ret)
           \* value_to_call.copy().set_pos(node.pos_start, node.pos_end)
           copy == Copy(fr1, ret.value)
           fr2 == Let(set_pos(copy, Newest(copy), node.pos_start, node.pos_end),
                      [value_to_call |-> Newest(copy), args |-> <<>>])
           fr3 == [fr1 EXCEPT !.f.args = Append(@, ret.value)]
           \* the next round of the loop over node.arg_nodes, or the call
           Loop(at) ==
               LET self == at.h.objs[at.f.value_to_call]
               IN IF Len(at.f.args) < Len(node.arg_nodes)
                  THEN Call(at, 2, Visit(node.arg_nodes[Len(at.f.args) + 1],
                                         at.f.context))
                  ELSE IF self.type \in {"Function", "BuiltInFunction"}
                  THEN Call(at, 3, [fn |-> self.type \o "_execute", pc |-> 0,
                                    self |-> at.f.value_to_call, args |-> at.f.args,
                                    result |-> RTResult])
                  \* Value.execute
                  ELSE RTFailure(at, illegal_operation(self, self))
           return_value == Copy(fr1, ret.value)
       IN Step(CASE fr.f.pc = 0 -> Call(fr, 1, Visit(node.node_to_call, fr.f.context))
                 [] fr.f.pc = 1 ->
                      IF should_return(fr1.f.result) THEN Return(fr1, fr1.f.result)
                      ELSE Loop(fr2)
                 [] fr.f.pc = 2 ->
                      IF should_return(fr1.f.result) THEN Return(fr1, fr1.f.result)
                      ELSE Loop(fr3)
                 [] fr.f.pc = 3 ->
                      IF should_return(fr1.f.result) THEN Return(fr1, fr1.f.result)
                      ELSE RTSuccess(
                               set_context(set_pos(return_value, Newest(return_value),
                                                   node.pos_start, node.pos_end),
                                           Newest(return_value), fr.f.context),
                               Newest(return_value)))

\* how many calls of functions are in progress
Depth == Cardinality({k \in 1..Len(stack) :
                          stack[k].fn \in {"Function_execute",
                                           "BuiltInFunction_execute"}})

Function_execute ==
    /\ Running("Function_execute")
    /\ Depth <= MaxDepth
    /\ LET fr == Self
           self == fr.h.objs[fr.f.self]
           fr0 == generate_new_context(fr, self)
           execution_context == Len(fr0.h.contexts)
           error == check_params(fr.h, self, fr.f.self, self.arg_names, fr.f.args)
           fr1 == RTRegister(fr, ret)
           func_return_value == fr1.f.result.func_return_value
           ret_value == IF self.should_auto_return /\ ret.value # 0 THEN ret.value
                        ELSE IF func_return_value # 0 THEN func_return_value
                        ELSE Number_none
       IN Step(IF fr.f.pc = 0
               THEN IF self.context = 0 THEN Raise(fr, "AttributeError")
                    ELSE IF IsError(error) THEN RTFailure(fr0, error)
                    ELSE Call(populate_params(fr0, self.arg_names, fr.f.args,
                                              execution_context), 1,
                              Visit(self.body_node, execution_context))
               ELSE IF should_return(fr1.f.result) /\ func_return_value = 0
               THEN Return(fr1, fr1.f.result)
               ELSE RTSuccess(fr1, ret_value))

visit_ReturnNode ==
    /\ Running("visit_ReturnNode")
    /\ LET fr == Self
           node == fr.f.node
           fr1 == RTRegister(fr, ret)
           success_return(at, value) ==
               Return(at, [RTResult EXCEPT !.func_return_value = value])
       IN Step(IF fr.f.pc = 0
               THEN IF node.node_to_return.kind # None
                    THEN Call(fr, 1, Visit(node.node_to_return, fr.f.context))
                    ELSE success_return(fr, Number_none)
               ELSE IF should_return(fr1.f.result) THEN Return(fr1, fr1.f.result)
               ELSE success_return(fr1, ret.value))

visit_ContinueNode ==
    /\ Running("visit_ContinueNode")
    /\ Step(Return(Self, [RTResult EXCEPT !.loop_should_continue = TRUE]))

visit_BreakNode ==
    /\ Running("visit_BreakNode")
    /\ Step(Return(Self, [RTResult EXCEPT !.loop_should_break = TRUE]))

\* ----------------------------------------------------------- the file system
\* the scripts that open() finds, by path, and the paths that are folders
Files ==
    [lib |-> "VAR shared = shared + 1; VAR made = 5",
     bad |-> "VAR made = 5; 1 +",
     odd |-> "VAR made = 5; @",
     fails |-> "VAR made = 5; made / 0; VAR made = 6"]
Directories == {"."}
\* the lines that input() may read
Inputs == {"7", "x"}

\* ------------------------------------------------------- BuiltInFunction
\* the arg_names of the method execute_<name>
arg_names(name) ==
    CASE name \in {"print", "print_ret", "is_number", "is_string", "is_list",
                   "is_function"} -> <<"value">>
      [] name \in {"input", "input_int", "clear"} -> <<>>
      [] name = "append" -> <<"list", "value">>
      [] name = "pop" -> <<"list", "index">>
      [] name = "extend" -> <<"listA", "listB">>
      [] name = "len" -> <<"list">>
      [] name = "run" -> <<"filename">>

\* the call of run(filename, text, context, entry_pos, return_result)
RunCall(filename, text, context, entry_pos, return_result) ==
    [fn |-> "run", pc |-> 0, filename |-> filename, text |-> text,
     context |-> context, entry_pos |-> entry_pos, return_result |-> return_result]

\* the method execute_<name>(execution_context) of the built-in function
\* self, text being the line that input() reads
execute_method(fr, self, execution_context, text) ==
    LET Get(name) == Lookup(fr, execution_context, name)
        Arg(name) == fr.h.objs[Get(name)]
        Fail(details) ==
            RTFailure(fr, RTError(self.pos_start, self.pos_end, details,
                                  execution_context))
        Is(type) == RTSuccess(fr, IF Arg("value").type \in type THEN Number_true
                                  ELSE Number_false)
        Write(line) == [fr EXCEPT !.h.stdout = Append(@, line)]
        shown == Str(fr.h, Get("value"), Len(fr.h.lists) + 1)
        string == New(fr, String(IF self.name = "input" THEN text ELSE shown[1]))
        isint == text # "" /\ \A k \in 1..Len(text) : SubSeq(text, k, k) \in DIGITS
        number == New(fr, Number(PyInt(StrToInt(text))))
        elements == fr.h.lists[Arg("list").elements]
        index == IF Arg("index").num.n < 0 THEN Arg("index").num.n + Len(elements)
                 ELSE Arg("index").num.n
        length == New(fr, Number(PyInt(Len(elements))))
        filename == Arg("filename").str
    IN CASE self.name = "print" ->
              IF shown = <<>> THEN Raise(fr, "RecursionError")
              ELSE RTSuccess(Write(shown[1]), Number_none)
         [] self.name = "print_ret" ->
              IF shown = <<>> THEN Raise(fr, "RecursionError")
              ELSE RTSuccess(string, Newest(string))
         [] self.name = "input" -> RTSuccess(string, Newest(string))
         [] self.name = "input_int" ->
              IF isint THEN RTSuccess(number, Newest(number))
              ELSE Again([Write("'" \o text \o "' must be an integer. Try again!")
                          EXCEPT !.f.rounds = @ + 1], 1)
         [] self.name = "clear" -> RTSuccess(fr, Number_none)
         [] self.name = "is_number" -> Is({"Number"})
         [] self.name = "is_string" -> Is({"String"})
         [] self.name = "is_list" -> Is({"List"})
         [] self.name = "is_function" -> Is({"Function", "BuiltInFunction"})
         [] self.name = "append" ->
              IF Arg("list").type # "List" THEN Fail("arg1_list_expected")
              ELSE RTSuccess([fr EXCEPT !.h.lists[Arg("list").elements] =
                                  Append(@, Get("value"))], Number_none)
         [] self.name = "pop" ->
              IF Arg("list").type # "List" THEN Fail("arg1_list_expected")
              ELSE IF Arg("index").type # "Number" THEN Fail("arg2_number_expected")
              ELSE IF Arg("index").num.d # 1 \/ Arg("index").num.f
              THEN Raise(fr, "TypeError")
              ELSE IF index < 0 \/ index >= Len(elements)
              THEN Fail("list_index_error")
              ELSE RTSuccess([fr EXCEPT !.h.lists[Arg("list").elements] =
                                  SubSeq(@, 1, index) \o SubSeq(@, index + 2, Len(@))],
                             elements[index + 1])
         [] self.name = "len" ->
              IF Arg("list").type # "List" THEN Fail("arg_list_expected")
              ELSE RTSuccess(length, Newest(length))
         [] self.name = "extend" ->
              IF Arg("listA").type # "List" THEN Fail("arg1_list_expected")
              ELSE IF Arg("listB").type # "List" THEN Fail("arg2_list_expected")
              ELSE RTSuccess([fr EXCEPT !.h.lists[Arg("listA").elements] =
                                  @ \o fr.h.lists[Arg("listB").elements]],
                             Number_none)
         [] self.name = "run" ->
              IF Arg("filename").type # "String" THEN Fail("arg2_string_expected")
              ELSE IF filename \in Directories \/ filename \notin DOMAIN Files
              THEN RTFailure(
                       Write("WARNING: run() is deprecated. Use 'IMPORT' instead"),
                       RTError(self.pos_start, self.pos_end,
                               "Failed to load script \"" \o filename \o "\"\n"
                               \o (IF filename \in Directories
                                   THEN "[Errno 21] Is a directory: '"
                                   ELSE "[Errno 2] No such file or directory: '")
                               \o filename \o "'", execution_context))
              ELSE Call(Write("WARNING: run() is deprecated. Use 'IMPORT' instead"),
                        2, RunCall(filename, Files[filename], 0, NoPos, FALSE))

BuiltInFunction_execute ==
    /\ Running("BuiltInFunction_execute")
    /\ Depth <= MaxDepth
    /\ Top.pc = 1 => Top.rounds < MaxIter
    /\ LET fr == Self
           self == fr.h.objs[fr.f.self]
           fr0 == generate_new_context(fr, self)
           error == check_params(fr.h, self, fr.f.self, arg_names(self.name),
                                 fr.f.args)
           fr1 == Let(populate_params(fr0, arg_names(self.name), fr.f.args,
                                      Len(fr0.h.contexts)),
                      [execution_context |-> Len(fr0.h.contexts), rounds |-> 0])
       IN \E text \in IF self.name \in {"input", "input_int"} /\ fr.f.pc < 2
                      THEN Inputs ELSE {""} :
              Step(CASE fr.f.pc = 0 ->
                          IF self.context = 0 THEN Raise(fr, "AttributeError")
                          ELSE IF IsError(error) THEN RTFailure(fr0, error)
                          ELSE execute_method(fr1, self, fr1.f.execution_context, text)
                     \* the loop of execute_input_int goes round
                     [] fr.f.pc = 1 ->
                          execute_method(fr, self, fr.f.execution_context, text)
                     \* execute_run: _, error = run(filename, script)
                     [] fr.f.pc = 2 ->
                          IF IsError(ret.error)
                          THEN RTFailure(fr, RTError(
                                   self.pos_start, self.pos_end,
                                   "Failed to finish executing script \""
                                   \o fr.h.objs[Lookup(fr, fr.f.execution_context,
                                                       "filename")].str
                                   \o "\"\n" \o as_string(fr.h, ret.error),
                                   fr.f.execution_context))
                          ELSE RTSuccess(fr, Number_none))

\* the error of an IMPORT as it would be with the span of the statement
import_error_at_statement(node, details, context) ==
    RTError(node.pos_start, node.pos_end, details, context)
\* RTError(node.string_node.pos_start.copy(), node.string_node.pos_end.copy(),
\* details, context): the error of an IMPORT that cannot run its file
import_error(node, details, context) ==
    RTError(node.string_node.pos_start, node.string_node.pos_end, details, context)

visit_ImportNode ==
    /\ Running("visit_ImportNode")
    /\ LET fr == Self
           node == fr.f.node
           fr1 == RTRegister(fr, ret)
           filepath == fr1.h.objs[ret.value].str
           \* filepath.value.split("/")[-1]
           slashes == {k \in 1..Len(filepath) : SubSeq(filepath, k, k) = "/"}
           filename == IF slashes = {} THEN filepath
                       ELSE SubSeq(filepath,
                                   (CHOOSE k \in slashes : \A j \in slashes : j <= k) + 1,
                                   Len(filepath))
           Fail(at, details) == RTFailure(at, import_error(node, details, fr.f.context))
           fr2 == RTRegister(fr, ret.result)
       IN Step(CASE fr.f.pc = 0 -> Call(fr, 1, Visit(node.string_node, fr.f.context))
                 [] fr.f.pc = 1 ->
                      IF filepath \in Directories THEN Raise(fr1, "IsADirectoryError")
                      ELSE IF filepath \notin DOMAIN Files
                      THEN Fail(fr1, "Can't find file '" \o filepath \o "'")
                      ELSE Call(Let(fr1, [filename |-> filename]), 2,
                                RunCall(filename, Files[filepath], fr.f.context,
                                        node.pos_start, TRUE))
                 [] fr.f.pc = 2 ->
                      IF IsError(ret.error)
                      THEN Fail(fr, "Failed to IMPORT script \"" \o fr.f.filename
                                    \o "\"\n" \o as_string(fr.h, ret.error))
                      ELSE IF IsError(fr2.f.result.error)
                      THEN Return(fr2, fr2.f.result)
                      ELSE RTSuccess(fr2, Number_none))

\* --------------------------------------------------------------------- run
\* the global_symbol_table is the first symbol table of the heap
global_symbol_table == 1

\* the context of run as it would be with a table of its own, a child of
\* the table of the context it is given
program_context_with_child_table(fr) ==
    [fr EXCEPT !.h.contexts =
                   Append(@, [Context("<program>", fr.f.context, fr.f.entry_pos)
                              EXCEPT !.symbol_table = Len(fr.h.symbol_tables) + 1]),
               !.h.symbol_tables =
                   Append(@, SymbolTable(
                                 IF fr.f.context = 0 THEN global_symbol_table
                                 ELSE fr.h.contexts[fr.f.context].symbol_table))]
\* context = Context("<program>", context, entry_pos) of run, the newest
\* context of the heap, and its table: the global one, or the one of the
\* context that run is given
program_context(fr) ==
    [fr EXCEPT !.h.contexts =
                   Append(@, [Context("<program>", fr.f.context, fr.f.entry_pos)
                              EXCEPT !.symbol_table =
                                  IF fr.f.context = 0 THEN global_symbol_table
                                  ELSE fr.h.contexts[fr.f.context].symbol_table])]

run ==
    /\ Running("run")
    /\ LET fr == Self
           program == program_context(fr)
       IN Step(CASE fr.f.pc = 0 ->
                      Call(fr, 1, [fn |-> "make_tokens", pc |-> 0,
                                   lx |-> Lexer(fr.f.filename, fr.f.text),
                                   tokens |-> <<>>])
                 [] fr.f.pc = 1 ->
                      IF IsError(ret.error)
                      THEN Return(fr, [value |-> 0, error |-> ret.error])
                      ELSE Call([fr EXCEPT !.p = Parser(ret.tokens)], 2,
                                Method("parse", FALSE, FALSE))
                 [] fr.f.pc = 2 ->
                      IF IsError(ret.error)
                      THEN Return(fr, [value |-> 0, error |-> ret.error])
                      ELSE Call(program, 3, Visit(ret.node, Len(program.h.contexts)))
                 [] fr.f.pc = 3 ->
                      IF fr.f.return_result
                      THEN Return(fr, [result |-> ret, error |-> NoError])
                      ELSE Return(fr, [value |-> ret.value, error |-> ret.error]))

\* ------------------------------------------------------------- the caller
\* The lines that the command line hands to run(), one session a sequence.
Sessions ==
    << \* 1: expressions, statements and lists are parsed
       <<"1", "1 + 2 * 3", "VAR a = 5", "VAR a = [1, 2, \"x\"]", "a(1, 2)", "1 +",
         "(1 + 2", "[1, 2", "[]", "[1,]", "f(1,", "f(", "VAR = 1", "VAR a 1", "1 2",
         "1; 2; 3", "1\n\n2\n", ";;1", "1; )", "NOT 1 AND 2 OR 3", "- - 1 ^ 2 ^ 3",
         "1 < 2 == 3", "f(1)(2)", "f()()", "\"a\" + \"b\"", "VAR a = VAR b = 1",
         "IF 1 2", "ELSE">>,
       \* 2: loops and the loop statements are parsed
       <<"FOR i = 0 TO 3 THEN i", "FOR i = IF 1 THEN BREAK TO 3 THEN i",
         "WHILE IF 1 THEN BREAK THEN 1", "FOR i = 0 TO 3 STEP 2 THEN BREAK",
         "FOR i = 0 TO 3 THEN\nCONTINUE\nEND", "WHILE 1 THEN BREAK", "BREAK",
         "CONTINUE", "WHILE 1 THEN\nBREAK\nEND", "WHILE 1 THEN\n1", "WHILE 1 2",
         "FOR 1", "FOR i 1", "FOR i = 1", "FOR i = 1 TO", "FOR i = 1 TO 2",
         "FOR i = 1 TO 2 STEP", "FOR i = 1 TO 2 THEN\n1">>,
       \* 3: functions and RETURN are parsed
       <<"RETURN", "RETURN 1", "FUN f() -> 1", "FUN f(a, b) -> a + b", "FUN () -> 1",
         "FUN f()\nRETURN 1\nEND", "FUN f()\nRETURN\nEND", "FUN f()\nBREAK\nEND",
         "FUN f() -> RETURN 1", "FUN f()\nFOR i = 0 TO 2 THEN RETURN i\nEND",
         "FOR i = 0 TO 2 THEN FUN g() -> BREAK",
         "FOR i = 0 TO 2 THEN FUN g()\nBREAK\nEND", "FUN f(a, a) -> 1",
         "FUN f(f) -> 1", "FUN f(a, f) -> 1", "FUN f(a, 1) -> 1", "FUN f(a b) -> 1",
         "FUN f a", "FUN 1", "FUN f(1) -> 1", "FUN f() 1", "FUN f()\n1",
         "FUN f(a)\nVAR b = a\nRETURN b\nEND", "RETURN 1 +", "FUN f() -> 1 +",
         "FUN f()\nRETURN 1 +\nEND", "FUN f()\nRETURN IF\nEND", "FUN f(a, b, a) -> 1",
         "FUN f(a, b, f) -> 1", "FUN f(a, b, c) -> a", "FUN f(a, a)\nRETURN 1\nEND",
         "FUN f(b, f)\nRETURN 1\nEND", "FUN g(a, b)\nRETURN a\nEND", "FUN (a) -> a">>,
       \* 4: IF in its single-line and multi-line forms is parsed
       <<"IF 1 THEN 2", "IF 1 THEN 2 ELSE 3", "IF 1 THEN 2 ELIF 3 THEN 4 ELSE 5",
         "IF 1 THEN\n2\nEND", "IF 1 THEN\n2\nELSE\n3\nEND",
         "IF 1 THEN\n2\nELIF 0 THEN\n4\nELSE\n3\nEND", "IF 1 THEN\n2\nELSE\n)\nEND",
         "IF 1 THEN\n2\nELSE\n3", "IF 1 THEN\n2", "IF 1 THEN 2 ELSE\n3\nEND", "1; 1 +",
         "1; IF 1 THEN", "IF 1 THEN\n1; 2 +\nEND", "IMPORT \"a\"", "IMPORT 1">>,
       \* 5: the operators of Number, String and List
       <<"+(IF 0 THEN 1)", "NONE", "-\"a\"", "NOT \"a\"", "NOT [1]", "-[1]", "+\"a\"",
         "NOT 5", "NOT 0.0", "--3", "1 AND 2.7", "0.0 OR 3", "0 OR 0", "2 AND 0",
         "1 == 1.0", "1 != 2", "3 >= 3", "2 <= 1", "2 > 1", "\"a\" == \"a\"",
         "[1] == [1]", "PRINT == PRINT", "1 + \"a\"", "\"a\" + 1", "1 - [1]", "7 % -3",
         "-7 % 3", "7.5 % 2", "7 % 0", "2 ^ -1", "2 ^ 0", "0 ^ 0", "2.5 * 2",
         "1 / 2 + 1 / 2", "0.5 - 0.25">>,
       \* 6: division by zero inside a power ends the interpreter
       <<"0 ^ -1">>,
       \* 7: the operators of List
       <<"VAR a = [1,2]", "VAR b = a + 3", "a", "b", "a - 0", "a", "a * [9]", "a / 1",
         "a / 5", "a - 7", "a / -1", "a - -1", "a">>,
       \* 8: the built-in functions on lists
       <<"VAR a = [1,2]", "APPEND(a, 5)", "a", "POP(a, 0)", "a", "EXTEND(a, [7,8])",
         "a", "LEN(a)", "POP(a, 9)", "POP(1, 2)", "POP(a, \"x\")", "APPEND(1, 2)",
         "EXTEND(a, 1)", "EXTEND(1, a)", "LEN(1)">>,
       \* 9: a list that holds itself
       <<"VAR a = []", "APPEND(a, a)", "LEN(a)", "PRINT(a)">>,
       \* 10: a List divided by a float
       <<"[1,2]/1.0">>,
       \* 11: a float taken off a List
       <<"[1,2]-1.0">>,
       \* 12: POP at a float
       <<"POP([1], 0.0)">>,
       \* 13: FOR over strings
       <<"FOR i = \"b\" TO \"a\" THEN 1", "FOR i = \"a\" TO \"b\" THEN 1">>,
       \* 14: FOR from a List
       <<"FOR i = [1] TO 2 THEN 1">>,
       \* 15: FOR to a List
       <<"FOR i = 1 TO [2] THEN 1">>,
       \* 16: FOR with a String step
       <<"FOR i = 1 TO 2 STEP \"a\" THEN 1">>,
       \* 17: FOR from a Number to a String
       <<"FOR i = 1 TO \"a\" THEN 1">>,
       \* 18: FOR with a function step
       <<"FOR i = 1 TO 2 STEP PRINT THEN 1">>,
       \* 19: FOR with BREAK and CONTINUE, nested
       <<"FOR i = 3 TO 0 STEP -1 THEN i", "i", "FOR i = 0 TO 1 STEP 0.5 THEN i",
         "FOR i = 0 TO 3 THEN IF i == 1 THEN CONTINUE ELSE i",
         "FOR i = 0 TO 5 THEN IF i == 2 THEN BREAK ELSE i",
         "FOR i = 0 TO 2 THEN FOR j = 0 TO 2 THEN IF j == 1 THEN BREAK ELSE i * 10 + j",
         "FOR i = 0 TO 2 THEN FOR j = 0 TO 3 THEN IF j == 1 THEN CONTINUE ELSE j">>,
       \* 20: BREAK, CONTINUE and RETURN in the header of a loop
       <<"FOR i = IF 1 THEN BREAK TO 3 THEN i",
         "FUN f() -> FOR i = IF 1 THEN BREAK TO 3 THEN i", "f(); VAR x = 1", "x",
         "FOR j = 0 TO 3 THEN FOR i = IF 1 THEN BREAK TO 3 THEN i", "j",
         "FOR j = 0 TO 3 THEN f()", "WHILE IF 1 THEN CONTINUE THEN 1",
         "FUN g()\nWHILE IF 1 THEN RETURN 7 THEN 1\nEND", "g()">>,
       \* 21: WHILE with BREAK and CONTINUE
       <<"VAR n = 0",
         "WHILE n < 3 THEN\nVAR n = n + 1\nIF n == 2 THEN CONTINUE\nn\nEND", "n",
         "VAR n = 0; WHILE n < 5 THEN\nVAR n = n + 1\nIF n == 2 THEN BREAK\nEND", "n",
         "VAR m = 0; WHILE m < 2 THEN VAR m = m + 1", "FOR i = 0 TO 2 THEN\ni\nEND">>,
       \* 22: RETURN in block and arrow functions
       <<"FUN f()\nRETURN 0\nVAR z = 1\nEND", "f()", "z", "FUN h()\nRETURN\nEND",
         "h()", "FUN k()\nVAR q = 1\nEND", "k()", "q", "FUN r() -> IF 1 THEN RETURN 5",
         "r()", "FUN s()\nFOR i = 0 TO 3 THEN RETURN i\nEND", "s()",
         "FUN t()\nFOR i = 0 TO 3 THEN\nIF i == 2 THEN RETURN i\nEND\nRETURN 9\nEND",
         "t()", "f() + 1; VAR after = 1", "after">>,
       \* 23: functions see the scope they were defined in
       <<"VAR x = 1", "FUN f() -> x", "f()", "VAR x = 2", "f()",
         "FUN g()\nVAR x = 10\nRETURN f()\nEND", "g()", "x",
         "FUN mk(n) -> FUN () -> n", "VAR c = mk(5)", "c()", "VAR d = c", "d()",
         "FUN app(fn) -> fn()", "app(c)", "app(f)",
         "FUN outer()\nVAR y = 3\nFUN inner() -> y\nVAR y = 4\nRETURN inner\nEND",
         "VAR i = outer()", "i()", "y">>,
       \* 24: calls with too many and too few arguments
       <<"FUN f(a, b) -> a - b", "f(1)", "f(1, 2, 3)", "f(5, 2)", "a", "PRINT()",
         "PRINT(1, 2)", "LEN()", "FUN () -> 1", "1(2)", "\"s\"()", "[1]()",
         "VAR an = FUN (q) -> q">>,
       \* 25: IMPORT at the top level and in a function
       <<"VAR shared = 1", "IMPORT \"lib\"", "shared", "made", "IMPORT \"nofile\"",
         "IMPORT \"bad\"", "IMPORT \"odd\"", "made", "IMPORT \"fails\"", "made",
         "FUN f()\nVAR shared = 10\nIMPORT \"lib\"\nRETURN shared * 100 + made\nEND",
         "f()", "shared", "made">>,
       \* 26: IMPORT of a directory
       <<"IMPORT \".\"">>,
       \* 27: RUN
       <<"RUN(\"lib\")", "VAR shared = 1", "RUN(\"lib\")", "shared", "RUN(\"nofile\")",
         "RUN(\"bad\")", "RUN(\"odd\")", "RUN(\"fails\")", "made", "RUN(1)",
         "RUN(\".\")">>,
       \* 28: errors at every depth
       <<"1 + (2 / 0) + x", "[1, 1/0, y]", "IF 1/0 THEN 1", "IF 1 THEN 1/0 ELSE 2",
         "IF 0 THEN 1 ELSE 1/0", "FOR i = 1/0 TO 2 THEN 1", "FOR i = 0 TO 1/0 THEN 1",
         "FOR i = 0 TO 2 STEP 1/0 THEN 1", "FOR i = 0 TO 2 THEN 1/0",
         "WHILE 1/0 THEN 1", "WHILE 1 THEN 1/0", "FUN f(x) -> 1/0", "f(1)", "f(1/0)",
         "g(1)", "FUN h()\nVAR p = 1\n1/0\nVAR p2 = 2\nEND", "h()", "VAR v = 1/0", "v",
         "-(1/0)", "NOT x", "FUN r()\nRETURN 1/0\nEND", "r()", "[f(1), 2]",
         "VAR l = [1, 2] / 3", "FOR i = 0 TO 2 THEN [i, f(1)]", "WHILE 1 THEN h()",
         "p">>,
       \* 29: the built-in functions and the truth of values
       <<"IS_NUM(1)", "IS_NUM(\"a\")", "IS_STR(\"a\")", "IS_LIST([])", "IS_FUN(PRINT)",
         "IS_FUN(FUN () -> 1)", "IS_FUN(1)", "CLEAR()", "CLS()", "PRINT(\"hi\")",
         "PRINT([1, [2, \"x\"]])", "PRINT(PRINT)", "PRINT_RET(2.0)", "PRINT_RET(10/4)",
         "PRINT_RET(-0.5)", "PRINT_RET(FUN zz() -> 1)", "MATH_PI > 3", "TRUE", "FALSE",
         "VAR TRUE = 5", "TRUE", "IF \"\" THEN 1 ELSE 2", "IF \"a\" THEN 1 ELSE 2",
         "IF [1] THEN 1 ELSE 2", "IF PRINT THEN 1 ELSE 2", "IF 0.0 THEN 1 ELSE 2">>,
       \* 30: names bound to zero and to empty values, shadowing
       <<"VAR zero = 0", "VAR es = \"\"", "VAR el = []", "zero", "es", "el",
         "FUN f() -> zero", "f()", "FUN g()\nVAR zero = 7\nRETURN zero\nEND", "g()",
         "zero", "FUN sh(zero) -> zero", "sh(3)", "zero">>,
       \* 31: recursion
       <<"FUN rec(n) -> IF n == 0 THEN 0 ELSE rec(n - 1) + 1", "rec(3)",
         "FUN inf() -> inf() + 1", "inf()">>,
       \* 32: errors of the lexer and the parser after valid statements
       <<"VAR a = 1; VAR b = 2; 1 +", "a", "VAR c = 3; @", "c", "VAR d = 4\n\"abc",
         "d">>,
       \* 33: multi-line IF
       <<"FUN f()\nIF 1 THEN\nRETURN 1\nELSE\nRETURN 2\nEND\nEND", "f()",
         "IF 0 THEN\n1\nELIF 1 THEN\n2\nELSE\n3\nEND",
         "IF 0 THEN 1 ELIF 0 THEN 2 ELSE\n3\nEND", "IF 1 THEN\n5\nEND">>,
       \* 34: the built-in functions that read a line
       <<"VAR s = INPUT()", "s", "VAR n = INPUT_INT()", "n + 1">>,
       \* 35: a loop that never ends
       <<"VAR n = 0", "WHILE 1 THEN VAR n = n + 1">>,
       \* 36: lists read from variables share their elements
       <<"VAR a = [1]", "VAR b = a + 5", "a", "VAR c = a", "APPEND(c, 9)", "a",
         "b - 0", "a", "POP(a, 0)", "b", "EXTEND(b, [7, 8])", "a", "a * [3]", "c",
         "FUN g(l) -> APPEND(l, 4)", "g(a)", "c", "VAR u = APPEND(a, 0)", "u">>,
       \* 37: a String times a Number
       <<"\"ab\" * 3", "\"ab\" * 0", "VAR s = \"x\"", "s * 2", "s + s", "2 * s">>,
       \* 38: functions without a name
       <<"FUN () -> 1", "VAR z = FUN () -> 2", "z()", "FUN ()\nRETURN 3\nEND",
         "VAR w = FUN ()\nRETURN 3\nEND", "w()", "FUN named() -> 4", "named()",
         "FUN (a, b) -> a + b">>,
       \* 39: a block function without a name, with a parameter
       <<"FUN (a)\nRETURN a\nEND">>,
       \* 40: a function without a name, with a parameter twice
       <<"FUN (a, a) -> 1">>,
       \* 41: the separators of statements
       <<"1;2", "1\n2", "1;;2", "1\n\n2", "\"a;b\"", "\"a\nb\"", "1 #* x\ny *# + 2",
         "1 #* x;y *#\n2", "1 # c", "1 # x ; y", "VAR p = 1 # one\nVAR q = 2", "p",
         "q", "# c\n1", "1 ;# c\n;2">>,
       \* 42: block comments that do not end
       <<"1 #* x", "#*", "1 #* x\n", "1\n#* x", "1\n2\n#* x\ny", "1 #* a\nb\nc\nd",
         "1 #* a *# #* b", "1 #* a *", "1 #* a\nb *# + 1">>,
       \* 43: texts of no statement
       <<"", " ", "	 	", "# only", "#* c *#", "\n", ";", "#* a\nb *#", "1">>,
       \* 44: numeric literals at the limits
       <<"1e307", "9e307", "1e308", "10e307", "1e400", "1e+308", "0.1e309", "1e-307",
         "1000e-310", "1e-308", "1000e-311", "0.001e-305", "1e-323", "1e5", "1.5e-3",
         "1e", "1e-",
         "10000000000000000000000000000000000000000000000000000000000000000000000000000000000000000000000000000000000000000000000000000000000000000000000000000000000000000000000000000000000000000000000000000000000000000000000000000000000000000000000000000000000000000000000000000000000000000000000000000000000000000000",
         "100000000000000000000000000000000000000000000000000000000000000000000000000000000000000000000000000000000000000000000000000000000000000000000000000000000000000000000000000000000000000000000000000000000000000000000000000000000000000000000000000000000000000000000000000000000000000000000000000000000000000000000",
         "10000000000000000000",
         "100000000000000000000000000000000000000000000000000000000000000000000000000000000000000000000000000000000000000000000000000000000000000000000000000000000000000000000000000000000000000000000000000000000000000000000000000000000000000000000000000000000000000000000000000000000000000000000000000000000000000000000.0",
         "0.0000000000000000000000000000001", "0.5", "12.",
         "1000000000000000000000000000000000000000000000000000000000000000000000000000000000000000000000000000000000000000000000000000000000000000000000000000000000000000000000000000000000000000000000000000000000000000000000000000000000000000000000000000000000000000000000000000000000000000000000000000000000000000000000.0">>,
       \* 45: an exponent literal that converts to zero
       <<"1e-400">>,
       \* 46: an exponent literal that is zero
       <<"0e0">>,
       \* 47: an exponent literal just under the smallest float
       <<"1e-324">>,
       \* 48: FOR evaluates its header once
       <<"VAR log = []",
         "FOR i = LEN(log + 0) - 1 TO LEN(log + 0) + 1 STEP LEN(log + 0) - 1 THEN i",
         "log", "i", "VAR e = 2", "FOR i = 0 TO e THEN VAR e = e + 5", "e",
         "FOR i = 0 TO 3 THEN VAR i = i + 10", "i", "FOR i = 0 TO 3 STEP 0 - 1 THEN i",
         "FOR i = 5 TO 5 THEN i", "i", "FOR i = 0 TO 3 THEN\ni\nEND",
         "FOR i = 0 TO 5 STEP 2 THEN\nIF i == 2 THEN CONTINUE\nVAR last = i\nEND",
         "last", "FUN f()\nFOR k = 0 TO 2 THEN k\nRETURN k\nEND", "f()", "k",
         "FOR i = 0 TO 5 THEN IF i == 1 THEN CONTINUE ELIF i == 3 THEN BREAK ELSE i">>,
       \* 49: single-line and multi-line forms
       <<"IF 1 THEN 5", "IF 1 THEN\n5\nEND", "IF 0 THEN 5", "IF 0 THEN\n5\nEND",
         "IF 0 THEN 5 ELSE 6", "IF 0 THEN 5 ELSE\n6\nEND", "IF 1 THEN 5 ELSE\n6\nEND",
         "IF 0 THEN\n5\nELSE 6", "IF 1 THEN\n5\nELSE 6", "IF 0 THEN\n5\nELIF 1 THEN 7",
         "IF 0 THEN 5 ELIF 1 THEN\n7\nEND", "IF 0 THEN 5 ELIF 0 THEN\n7\nELSE 8",
         "IF 0 THEN 5 ELIF 0 THEN 7", "VAR y = IF 1 THEN\n5\nEND", "y",
         "WHILE 0 THEN 1", "WHILE 0 THEN\n1\nEND", "VAR n = 0",
         "WHILE n < 2 THEN VAR n = n + 1", "VAR n = 0",
         "WHILE n < 2 THEN\nVAR n = n + 1\nEND", "FOR i = 0 TO 2 THEN i",
         "FOR i = 0 TO 2 THEN\ni\nEND", "IF 1 THEN\n1; 2; \"x\"\nEND">>,
       \* 50: statements and RETURN expressions that fail after a separator
       <<"1\n2 +", "1; VAR = 3", "1\n(2", "1;2;3 +", "FUN f()\nRETURN 1 +\nEND",
         "FUN f()\n1\n2 +\nEND", "IF 1 THEN\n1\n2 +\nEND", "FUN f() -> RETURN (1",
         "1\n+", "FUN f()\nRETURN -\nEND", "WHILE 0 THEN\n1\n[1,\nEND", "VAR ok = 1",
         "ok">>,
       \* 51: statement lists that end at a token of no statement
       <<"1\n", "1;;", "1\n)", "1\n2\n\n", "IF 1 THEN\n1\n\nEND",
         "IF 0 THEN\n1\n;ELIF 1 THEN\n2\n\nELSE\n3\n\nEND", "FUN f()\nRETURN\nEND",
         "f()", "FUN g()\nRETURN;1\nEND", "g()", "FUN h() -> RETURN", "h()",
         "FUN k()\nIF 1 THEN RETURN ELSE 2\nEND", "k()",
         "FOR i = 0 TO 2 THEN\ni\n\nEND", "1\nEND", "1;THEN", "FUN r()\nRETURN )\nEND",
         "[1\n]">>,
       \* 52: a function body that assigns the names of its caller and of its defining scope
       <<"VAR a = 1", "VAR i = 9", "FUN g() -> 0",
         "FUN f(a)\nVAR b = a\nFOR i = 0 TO 2 THEN VAR a = i\nFUN g() -> b\nRETURN g() + a / (b - 5)\nEND",
         "f(4)", "f(5)", "a", "i", "g()",
         "FUN mk()\nVAR b = 1\nFUN inner(a)\nVAR b = a\nEND\nRETURN inner\nEND",
         "VAR h = mk()", "h(8)", "b">>,
       \* 53: FOR with a step of zero
       <<"FOR i = 2 TO 1 STEP 0 THEN i", "FOR i = 1 TO 1 STEP 0 THEN i",
         "FOR i = 3 TO 0 STEP -2 THEN VAR i = 0",
         "FOR i = 0 TO 4 STEP 3 THEN VAR i = i - 3",
         "FOR i = 0 TO 2 STEP 0 THEN VAR i = i + 5">>,
       \* 54: a syntax error in the body of a multi-line THEN and of a multi-line ELSE
       <<"IF 1 THEN\n2 +\nEND", "IF 1 THEN\n)\nEND", "IF 0 THEN\n1\nELSE\n2\n3 +\nEND",
         "IF 0 THEN\n1\nELSE\n2 +\nEND">>,
       \* 55: a multi-line ELSE with no statement
       <<"IF 0 THEN 1 ELSE\n2\nEND", "IF 1 THEN\n1\nELSE\nEND">> >>

\* the command line: it calls run("<stdin>", line) with each line in turn
shell ==
    /\ Running("shell")
    /\ IF Top.pc = 0
       THEN /\ runs < Len(Sessions[session])
            /\ Step(Call(Self, 1, RunCall("<stdin>", Sessions[session][runs + 1], 0,
                                          NoPos, FALSE)))
       ELSE /\ result' = ret
            /\ runs' = runs + 1
            /\ stack' = <<[Top EXCEPT !.pc = 0]>>
            /\ ret' = NoRet
            /\ UNCHANGED <<session, parser, heap, exc>>

\* ------------------------------------------------------------ Init and Next
\* the names of the built-in functions in the order basic.py creates them
BuiltIns ==
    <<"print", "print_ret", "input", "input_int", "clear", "is_number",
      "is_string", "is_list", "is_function", "append", "pop", "extend", "len",
      "run">>
\* The module is loaded: Number.none, Number.false, Number.true and
\* Number.math_PI, the built-in functions, and the global symbol table.
InitHeap ==
    LET f(name) == 4 + CHOOSE k \in 1..Len(BuiltIns) : BuiltIns[k] = name
    IN [objs |-> <<Number(PyInt(0)), Number(PyInt(0)), Number(PyInt(1)),
                   Number(PyFloat(314159265, 100000000))>>
                 \o [k \in 1..Len(BuiltIns) |-> BuiltInFunction(BuiltIns[k])],
        lists |-> <<>>,
        contexts |-> <<>>,
        symbol_tables |->
            <<[parent |-> 0,
               symbols |->
                   [NONE |-> Number_none, FALSE |-> Number_false,
                    TRUE |-> Number_true, MATH_PI |-> 4, PRINT |-> f("print"),
                    PRINT_RET |-> f("print_ret"), INPUT |-> f("input"),
                    INPUT_INT |-> f("input_int"), CLEAR |-> f("clear"),
                    CLS |-> f("clear"), IS_NUM |-> f("is_number"),
                    IS_STR |-> f("is_string"), IS_LIST |-> f("is_list"),
                    IS_FUN |-> f("is_function"), APPEND |-> f("append"),
                    POP |-> f("pop"), EXTEND |-> f("extend"), LEN |-> f("len"),
                    RUN |-> f("run")]]>>,
        stdout |-> <<>>]

Init ==
    /\ session \in 1..Len(Sessions)
    /\ runs = 0
    /\ result = NoRet
    /\ stack = <<[fn |-> "shell", pc |-> 0]>>
    /\ ret = NoRet
    /\ parser = [tokens |-> <<>>, token_index |-> -1, current_token |-> NoTok]
    /\ heap = InitHeap
    /\ exc = NoExc

Next ==
    \/ shell \/ run \/ make_tokens
    \/ parse \/ statements \/ parse_any_additional_statements \/ statement
    \/ parse_return \/ parse_continue \/ parse_break \/ parse_import
    \/ expr \/ parse_variable_assignment \/ comp_expr \/ arith_expr \/ term
    \/ factor \/ power \/ bin_op \/ call \/ list_expr \/ atom
    \/ if_expr \/ if_expr_b \/ if_expr_c \/ if_expr_b_or_c \/ if_expr_cases
    \/ parse_multiline_else \/ parse_multiline_then
    \/ for_expr \/ while_expr \/ func_def \/ parse_params_and_arrow
    \/ checkfor_parse_arrow
    \/ visit_NumberNode \/ visit_StringNode \/ visit_ListNode
    \/ visit_VarAccessNode \/ visit_VarAssignNode \/ visit_BinOpNode
    \/ visit_UnaryOpNode \/ visit_IfNode \/ visit_ForNode \/ visit_WhileNode
    \/ visit_FuncDefNode \/ visit_CallNode \/ visit_ReturnNode
    \/ visit_ContinueNode \/ visit_BreakNode \/ visit_ImportNode
    \/ Function_execute \/ BuiltInFunction_execute

Spec == Init /\ [][Next]_vars
\* no step is left: an exception has ended the shell, the shell has read its
\* last line, or the evaluation has come to MaxIter or MaxDepth
Halted ==
    \/ stack = <<>>
    \/ Running("shell") /\ Top.pc = 0 /\ runs >= Len(Sessions[session])
    \/ Running("visit_ForNode") /\ Top.pc = 4 /\ Top.rounds >= MaxIter
    \/ Running("visit_WhileNode") /\ Top.pc = 2 /\ Top.rounds >= MaxIter
    \/ Running("Function_execute") /\ Depth > MaxDepth
    \/ Running("BuiltInFunction_execute")
           /\ (Depth > MaxDepth \/ (Top.pc = 1 /\ Top.rounds >= MaxIter))
\* the interpreter is one thread that goes on to its next step as long as
\* it has one: the weak fairness of Next, with what enables a step of Next
\* written out as ~Halted
FairSpec == Spec /\ ([]<>Halted \/ []<><<Next>>_vars)

\* ================================================================ properties
\* the runtime error that a returned result carries, NoError if it has none:
\* an RTResult, the pair (value, error) of run, or the pair (result, None)
\* that run hands to IMPORT
Carried(r) ==
    LET error == IF "result" \in DOMAIN r THEN r.result.error
                 ELSE IF "error" \in DOMAIN r THEN r.error
                 ELSE NoError
    IN IF error.name = "Runtime Error" THEN error ELSE NoError
\* the stack holds a frame of the method fn
Within(fn) == \E k \in 1..Len(stack) : stack[k].fn = fn

\* C1: a runtime error that the evaluation of a node returns is handed on by
\* every method it is returned to, at once and unchanged: the visit method of
\* the enclosing node, the function whose body it is and run itself return
\* it as their own result without a step in between (no sibling is visited,
\* the heap is left as it is), up to the shell, which gets it as the result
\* of run.  The built-in RUN, which reports the failure of the script it
\* ran as an error of its own, returns an error as well.
C1_ErrorForwarded ==
    [][(stack # <<>> /\ IsError(Carried(ret))) =>
           /\ heap' = heap
           /\ IF Top.fn = "shell" THEN result' = ret /\ Carried(result') = Carried(ret)
              ELSE /\ stack' = Below
                   /\ IF Top.fn = "BuiltInFunction_execute"
                      THEN IsError(Carried(ret'))
                      ELSE Carried(ret') = Carried(ret)]_vars
\* an error made in the body of a function, called in an element of a list
\* in the body of a FOR loop, has come back to the call
C1_Witness ==
    /\ Running("Function_execute")
    /\ IsError(Carried(ret))
    /\ Within("visit_ListNode")
    /\ Within("visit_ForNode")
    /\ Within("visit_CallNode")

\* a result that is a value and nothing else: no error, no pending RETURN,
\* no CONTINUE and no BREAK
Plain(r) ==
    /\ r.value # 0
    /\ ~IsError(r.error)
    /\ r.func_return_value = 0
    /\ ~r.loop_should_continue
    /\ ~r.loop_should_break
\* the body of the loop that is running has returned
InLoopBody ==
    \/ Running("visit_ForNode") /\ Top.pc = 4
    \/ Running("visit_WhileNode") /\ Top.pc = 2
\* the loop that is running goes on with these elements collected: to its
\* next iteration, or to its end, where it returns them as a List (the unit
\* value if it is a multi-line loop) and no signal
LoopGoesOn(elements) ==
    \/ /\ Len(stack') = Len(stack) + 1
       /\ stack'[Len(stack)].fn = Top.fn
       /\ stack'[Len(stack)].elements = elements
    \/ /\ stack' = Below
       /\ Plain(ret')
       /\ IF Top.node.should_return_none THEN ret'.value = Number_none
          ELSE /\ heap'.objs[ret'.value].type = "List"
               /\ heap'.lists[heap'.objs[ret'.value].elements] = elements

\* C2: when the body of a FOR or WHILE loop returns with the CONTINUE signal,
\* the loop collects no value for that iteration and goes on to the next
\* one; when it returns with the BREAK signal the loop ends, returning what
\* it had collected; a body that returns a plain value has it collected.
\* Whatever a loop returns after its body ran carries neither signal, so
\* the loop around it sees a plain value.
C2_LoopSignals ==
    [][InLoopBody =>
           /\ stack' = Below => ~ret'.loop_should_continue /\ ~ret'.loop_should_break
           /\ ret.loop_should_continue => LoopGoesOn(Top.elements)
           /\ ret.loop_should_break =>
                  stack' = Below /\ LoopGoesOn(Top.elements)
           /\ Plain(ret) => LoopGoesOn(Append(Top.elements, ret.value))]_vars
\* the inner loop gets the BREAK of its body while the loop around it is in
\* its second iteration: the BREAK before did not end the outer loop
C2_Witness ==
    /\ InLoopBody
    /\ ret.loop_should_break
    /\ \E k \in 1..(Len(stack) - 1) :
           /\ stack[k].fn \in {"visit_ForNode", "visit_WhileNode"}
           /\ stack[k].rounds = 2
           /\ Len(stack[k].elements) = 1

\* C3 as the specification states it: a call of a user function that does not
\* fail returns a plain value, which is the value of the body for an arrow
\* function whose body has one, and else the value of the RETURN executed,
\* the unit value when none was; a list of statements that gets a pending
\* RETURN evaluates no further statement.
C3_CallReturnsPlainValue ==
    [][/\ (Running("Function_execute") /\ Top.pc = 1 /\ ~IsError(ret.error)) =>
              /\ stack' = Below
              /\ Plain(ret')
              /\ ret'.value =
                     IF heap.objs[Top.self].should_auto_return /\ ret.value # 0
                     THEN ret.value
                     ELSE IF ret.func_return_value # 0 THEN ret.func_return_value
                     ELSE Number_none
       /\ (Running("visit_ListNode") /\ Top.pc = 1 /\ ret.func_return_value # 0) =>
              stack' = Below /\ ret'.func_return_value = ret.func_return_value]_vars

RECURSIVE WellPlaced(_, _, _)
\* In the tree of node every BreakNode and ContinueNode is in the body of a
\* FOR or WHILE node (in_a_loop), with no function definition in between,
\* and every ReturnNode is in the body of a function (in_a_function).
WellPlaced(node, in_a_loop, in_a_function) ==
    LET Each(nodes) ==
            \A k \in 1..Len(nodes) : WellPlaced(nodes[k], in_a_loop, in_a_function)
        Here(child) == WellPlaced(child, in_a_loop, in_a_function)
        Maybe(child) == child.kind = None \/ Here(child)
    IN CASE node.kind \in {"BreakNode", "ContinueNode"} -> in_a_loop
         [] node.kind = "ReturnNode" -> in_a_function /\ Maybe(node.node_to_return)
         [] node.kind = "ListNode" -> Each(node.element_nodes)
         [] node.kind = "VarAssignNode" -> Here(node.value_node)
         [] node.kind = "BinOpNode" -> Here(node.left_node) /\ Here(node.right_node)
         [] node.kind = "UnaryOpNode" -> Here(node.node)
         [] node.kind = "IfNode" ->
              /\ \A k \in 1..Len(node.cases) :
                     Here(node.cases[k].condition) /\ Here(node.cases[k].node)
              /\ node.else_case.kind = None \/ Here(node.else_case.node)
         [] node.kind = "ForNode" ->
              /\ Here(node.start_value_node)
              /\ Here(node.end_value_node)
              /\ Maybe(node.step_value_node)
              /\ WellPlaced(node.body_node, TRUE, in_a_function)
         [] node.kind = "WhileNode" ->
              /\ Here(node.condition_node)
              /\ WellPlaced(node.body_node, TRUE, in_a_function)
         [] node.kind = "FuncDefNode" -> WellPlaced(node.body_node, FALSE, TRUE)
         [] node.kind = "CallNode" -> Here(node.node_to_call) /\ Each(node.arg_nodes)
         [] OTHER -> TRUE

\* C4 as the specification states it: in the tree of every text that the
\* parser accepts, BREAK and CONTINUE are in the body of a loop and RETURN is
\* in the body of a function.
C4_SignalsWellPlaced ==
    (Running("run") /\ Top.pc = 2 /\ ~IsError(ret.error)) =>
        WellPlaced(ret.node, FALSE, FALSE)

\* the call of a function has made its context and goes on to the body
BodyEntered ==
    /\ Running("Function_execute")
    /\ Top.pc = 0
    /\ Len(stack') = Len(stack) + 1
\* C5: a function object keeps for good the context of the scope it was
\* defined in (the one visit_FuncDefNode ran in): no step changes it, and the
\* copies made when a name is looked up, when a value is called and when a
\* call returns a function carry it.  A call evaluates the body in a new
\* context whose table has as its parent the table of that defining scope,
\* the table itself and so with the bindings it has at the time of the
\* call, whatever the scope of the caller.
C5_DefiningScope ==
    [][/\ \A k \in 1..Len(heap.objs) :
              heap.objs[k].type = "Function" =>
                  heap'.objs[k].context = heap.objs[k].context
       /\ Running("visit_FuncDefNode") =>
              heap'.objs[ret'.value].context = Top.context
       /\ (Running("visit_VarAccessNode") /\ ~IsError(ret'.error)) =>
              LET value == Lookup(Self, Top.context, Top.node.token.value)
              IN heap.objs[value].type = "Function" =>
                     heap'.objs[ret'.value].context = heap.objs[value].context
       /\ (Running("visit_CallNode") /\ Top.pc \in {1, 3} /\ Plain(ret)
           /\ heap.objs[ret.value].type = "Function") =>
              heap'.objs[Len(heap'.objs)].context = heap.objs[ret.value].context
       /\ BodyEntered =>
              LET defined == heap.objs[Top.self].context
                  new == stack'[Len(stack')].context
                  table == heap'.contexts[new].symbol_table
              IN /\ new \notin DOMAIN heap.contexts
                 /\ table \notin DOMAIN heap.symbol_tables
                 /\ heap'.contexts[new].parent = defined
                 /\ heap'.symbol_tables[table].parent =
                        heap.contexts[defined].symbol_table
                 /\ stack'[Len(stack')].node = heap.objs[Top.self].body_node]_vars
\* x is looked up in the body of a function defined at the top level, called
\* from a function whose own table binds x: what is found is the binding of
\* the top level, as rebound to 2 after the function was defined
C5_Witness ==
    /\ Running("visit_VarAccessNode")
    /\ Top.node.token.value = "x"
    /\ \E k \in 1..(Len(stack) - 1) :
           /\ stack[k].fn = "Function_execute"
           /\ stack[k].pc = 1
           /\ Len(stack) > k + 1
           /\ LET caller == heap.contexts[stack[k + 1].context].symbol_table
              IN /\ caller # heap.contexts[Top.context].symbol_table
                 /\ "x" \in DOMAIN heap.symbol_tables[caller].symbols
                 /\ Lookup(Self, Top.context, "x") #
                        heap.symbol_tables[caller].symbols["x"]
    /\ Lookup(Self, Top.context, "x") =
           heap.symbol_tables[global_symbol_table].symbols["x"]
    /\ heap.objs[Lookup(Self, Top.context, "x")].num = PyInt(2)

\* the parameters of the function that is being called
Params ==
    LET self == heap.objs[Top.self]
    IN IF self.type = "Function" THEN self.arg_names ELSE arg_names(self.name)
\* a call is about to check its arguments
Called ==
    /\ stack # <<>>
    /\ Top.fn \in {"Function_execute", "BuiltInFunction_execute"}
    /\ Top.pc = 0
    /\ heap.objs[Top.self].context # 0
\* C6: a call with more or fewer arguments than the function has parameters
\* returns at once a runtime error whose text names the function; nothing
\* is evaluated (no object is made, nothing is printed) and no table gets a
\* binding: the tables there were are as before and the table of the call
\* is empty.  With as many arguments as parameters the table of the call
\* binds parameter k to argument k, and nothing else, when the body starts.
C6_Arity ==
    [][Called =>
           LET self == heap.objs[Top.self]
               excess == Len(Top.args) - Len(Params)
               table == Len(heap.symbol_tables) + 1
               Shown == IF self.type = "Function"
                        THEN "<function " \o self.name \o ">"
                        ELSE "<built-in function " \o self.name \o ">"
           IN IF excess # 0
              THEN /\ stack' = Below
                   /\ ret'.error.name = "Runtime Error"
                   /\ ret'.error.details =
                          IF excess > 0
                          THEN IntStr(excess) \o " too many args passed into " \o Shown
                          ELSE IntStr(-excess) \o " too few args passed into " \o Shown
                   /\ ret'.value = 0
                   /\ heap'.objs = heap.objs
                   /\ heap'.lists = heap.lists
                   /\ heap'.stdout = heap.stdout
                   /\ heap'.symbol_tables =
                          Append(heap.symbol_tables,
                                 [symbols |-> <<>>,
                                  parent |-> heap.contexts[self.context].symbol_table])
              ELSE self.type = "Function" =>
                       /\ Len(stack') = Len(stack) + 1
                       /\ stack'[Len(stack')] = Visit(self.body_node, Len(heap.contexts) + 1)
                       /\ heap'.contexts[Len(heap.contexts) + 1].symbol_table = table
                       /\ DOMAIN heap'.symbol_tables[table].symbols =
                              {Params[k] : k \in 1..Len(Params)}
                       /\ \A k \in 1..Len(Params) :
                              heap'.symbol_tables[table].symbols[Params[k]] = Top.args[k]
                       /\ \A t \in 1..Len(heap.symbol_tables) :
                              heap'.symbol_tables[t] = heap.symbol_tables[t]]_vars
\* a function of two parameters is called with one argument
C6_Witness ==
    /\ Called
    /\ Len(Params) = 2
    /\ Len(Top.args) = 1

\* C7: IMPORT hands its own context to run, and run evaluates the script in
\* a new context whose table is the table of the context it was given (the
\* global one if it was given none): the very table, no new table is made.
\* The imported script therefore reads and writes the bindings of the
\* importer, the table of the call when IMPORT is in a function body, and
\* the return from the script undoes nothing.
C7_ImportSharesTable ==
    [][/\ (Running("visit_ImportNode") /\ Top.pc = 1
           /\ Len(stack') = Len(stack) + 1) =>
              /\ stack'[Len(stack')].fn = "run"
              /\ stack'[Len(stack')].context = Top.context
              /\ heap' = heap
       /\ (Running("run") /\ Top.pc = 2 /\ ~IsError(ret.error)) =>
              LET new == stack'[Len(stack')].context
              IN /\ new = Len(heap.contexts) + 1
                 /\ heap'.contexts[new].parent = Top.context
                 /\ heap'.contexts[new].symbol_table =
                        IF Top.context = 0 THEN global_symbol_table
                        ELSE heap.contexts[Top.context].symbol_table
                 /\ heap'.symbol_tables = heap.symbol_tables
       /\ (Running("visit_ImportNode") /\ Top.pc = 2) => heap' = heap]_vars
\* IMPORT "lib" returns in the body of a function that had bound shared to 10:
\* the table of the call has shared = 11 and the new binding made = 5, and
\* the global shared is still 2
C7_Witness ==
    /\ Running("visit_ImportNode")
    /\ Top.pc = 2
    /\ Within("Function_execute")
    /\ LET table == heap.contexts[Top.context].symbol_table
           symbols == heap.symbol_tables[table].symbols
           global == heap.symbol_tables[global_symbol_table].symbols
       IN /\ table # global_symbol_table
          /\ {"shared", "made"} \subseteq DOMAIN symbols
          /\ heap.objs[symbols["shared"]].num = PyInt(11)
          /\ heap.objs[symbols["made"]].num = PyInt(5)
          /\ "shared" \in DOMAIN global
          /\ heap.objs[global["shared"]].num = PyInt(2)

\* C8 as the specification states it: an IMPORT that fails returns a runtime
\* error with the span of the import statement and the context of the
\* importer, which wraps the failure of the script when the script was run.
C8_ImportErrorWraps ==
    [][(Running("visit_ImportNode") /\ stack' = Below /\ IsError(ret'.error)) =>
           /\ ret'.error.name = "Runtime Error"
           /\ ret'.error.pos_start = Top.node.pos_start
           /\ ret'.error.pos_end = Top.node.pos_end
           /\ ret'.error.context = Top.context
           /\ Top.pc = 2 =>
                  LET inner == IF IsError(ret.error) THEN ret.error
                               ELSE ret.result.error
                  IN ret'.error.details =
                         "Failed to IMPORT script \"" \o Top.filename \o "\"\n"
                         \o as_string(heap, inner)]_vars
\* C8, amended: when the file is not found, and when the lexer or the parser
\* fails on the script, IMPORT returns a runtime error of the importer's
\* context whose span is that of the string operand of the statement (the
\* file name, not the keyword), with the text of the inner error wrapped in
\* the second case; when the evaluation of the script fails, IMPORT returns
\* the runtime error of the script itself, unchanged.
C8_ImportError ==
    [][Running("visit_ImportNode") =>
           LET operand == Top.node.string_node
               Wrapped(details) ==
                   /\ stack' = Below
                   /\ ret'.value = 0
                   /\ ret'.error = RTError(operand.pos_start, operand.pos_end, details,
                                           Top.context)
           IN /\ (Top.pc = 1 /\ stack' = Below) =>
                     Wrapped("Can't find file '" \o heap.objs[ret.value].str \o "'")
              /\ (Top.pc = 2 /\ IsError(ret.error)) =>
                     /\ ret.error.name # "Runtime Error"
                     /\ Wrapped("Failed to IMPORT script \"" \o Top.filename \o "\"\n"
                                \o as_string(heap, ret.error))
              /\ (Top.pc = 2 /\ ~IsError(ret.error) /\ IsError(ret.result.error)) =>
                     /\ stack' = Below
                     /\ ret'.error = ret.result.error]_vars
\* the evaluation of an imported script has failed, on a line of the script
C8_Witness ==
    /\ Running("visit_ImportNode")
    /\ Top.pc = 2
    /\ "result" \in DOMAIN ret
    /\ IsError(ret.result.error)
    /\ ret.result.error.pos_start.filename = Top.filename
    /\ ret.result.error.context # Top.context

\* a method of the lexer or the parser is running, or run is before the
\* evaluation: it has not lexed or parsed yet, or that has failed
FrontEnd ==
    /\ stack # <<>>
    /\ Top.fn # "shell"
    /\ Top.fn \notin {"Function_execute", "BuiltInFunction_execute"}
    /\ Len(Top.fn) > 6 => SubSeq(Top.fn, 1, 6) # "visit_"
    /\ Top.fn = "run" => Top.pc < 2 \/ (Top.pc = 2 /\ IsError(ret.error))
\* C9: make_tokens returns no tokens when it returns an error.  run returns
\* (None, error), at once, when make_tokens or, after it, parse returned an
\* error for the text as a whole, wherever in the text the error is; and no
\* step of the lexer, of the parser or of run up to there touches the heap:
\* nothing is evaluated and the symbol tables are as they were before the
\* call.
C9_NothingEvaluated ==
    [][/\ (Running("make_tokens") /\ stack' = Below /\ IsError(ret'.error)) =>
              ret'.tokens = <<>>
       /\ (Running("run") /\ Top.pc \in {1, 2} /\ IsError(ret.error)) =>
              /\ stack' = Below
              /\ ret' = [value |-> 0, error |-> ret.error]
       /\ (Running("run") /\ Top.pc = 1 /\ ~IsError(ret.error)) =>
              /\ stack'[Len(stack')].fn = "parse"
              /\ parser'.tokens = ret.tokens
              /\ ret.tokens[Len(ret.tokens)].type = "EOF"
       /\ FrontEnd => heap' = heap]_vars
\* parse has failed on a text whose first two statements are valid
\* assignments: run is about to return the error, and neither name is bound
C9_Witness ==
    /\ Running("run")
    /\ Top.pc = 2
    /\ Top.text = "VAR a = 1; VAR b = 2; 1 +"
    /\ IsError(ret.error)
    /\ {"a", "b"} \cap DOMAIN heap.symbol_tables[global_symbol_table].symbols = {}

RECURSIVE Chain(_)
\* the tables from this one to the root
Chain(table) ==
    IF table = 0 THEN <<>> ELSE <<table>> \o Chain(heap.symbol_tables[table].parent)
\* C10: the access of a variable returns the error "'name' is not defined"
\* exactly when no table on the chain from the table of the current context
\* to the root binds the name; else it returns a copy of the value bound in
\* the first table of the chain that binds it, whatever the value, zero and
\* empty values included.
C10_Lookup ==
    [][Running("visit_VarAccessNode") =>
           LET name == Top.node.token.value
               chain == Chain(heap.contexts[Top.context].symbol_table)
               binding == {k \in 1..Len(chain) :
                               name \in DOMAIN heap.symbol_tables[chain[k]].symbols}
               nearest == CHOOSE k \in binding : \A j \in binding : k <= j
               bound == heap.objs[heap.symbol_tables[chain[nearest]].symbols[name]]
               got == heap'.objs[ret'.value]
           IN /\ stack' = Below
              /\ IsError(ret'.error) <=> binding = {}
              /\ binding = {} =>
                     /\ ret'.error = RTError(Top.node.pos_start, Top.node.pos_end,
                                             "'" \o name \o "' is not defined",
                                             Top.context)
                     /\ ret'.value = 0
              /\ binding # {} =>
                     /\ Plain(ret')
                     /\ got.type = bound.type
                     /\ got.num = bound.num
                     /\ got.str = bound.str
                     /\ got.elements = bound.elements
                     /\ got.name = bound.name]_vars
\* zero is looked up in the body of a function that has bound it to 7, while
\* the global table binds it to 0
C10_Witness ==
    /\ Running("visit_VarAccessNode")
    /\ Top.node.token.value = "zero"
    /\ LET chain == Chain(heap.contexts[Top.context].symbol_table)
       IN /\ Len(chain) = 2
          /\ "zero" \in DOMAIN heap.symbol_tables[chain[1]].symbols
          /\ "zero" \in DOMAIN heap.symbol_tables[chain[2]].symbols
          /\ heap.objs[heap.symbol_tables[chain[1]].symbols["zero"]].num = PyInt(7)
          /\ heap.objs[heap.symbol_tables[chain[2]].symbols["zero"]].num = PyInt(0)

\* C11: the wrappers of a list share its sequence of elements.  No step
\* gives a List object another sequence; the copy that the access of a
\* variable returns has the sequence of the value bound; list + value,
\* list - index and list * list change the sequence of their left operand
\* in place and return a wrapper of that same sequence; APPEND, POP and
\* EXTEND change the sequence of their first argument in place, and APPEND
\* returns the unit value.  So every variable bound to the list has the
\* changed elements from then on.
C11_ListsShared ==
    [][/\ \A k \in 1..Len(heap.objs) :
              heap.objs[k].type = "List" =>
                  /\ heap'.objs[k].type = "List"
                  /\ heap'.objs[k].elements = heap.objs[k].elements
       /\ (Running("visit_VarAccessNode") /\ ~IsError(ret'.error)) =>
              LET value == Lookup(Self, Top.context, Top.node.token.value)
              IN heap.objs[value].type = "List" =>
                     /\ heap'.objs[ret'.value].type = "List"
                     /\ heap'.objs[ret'.value].elements = heap.objs[value].elements
                     /\ heap'.lists = heap.lists
       /\ (Running("visit_BinOpNode") /\ Top.pc = 2 /\ Plain(ret)
           /\ heap.objs[Top.left].type = "List"
           /\ stack' = Below /\ ~IsError(ret'.error)
           /\ Top.node.operator_token.type \in {"PLUS", "MINUS", "MULTIPLY"}) =>
              LET op == Top.node.operator_token.type
                  sequence == heap.objs[Top.left].elements
                  elements == heap.lists[sequence]
                  other == heap.objs[ret.value]
                  index == IF other.num.n < 0 THEN other.num.n + Len(elements)
                           ELSE other.num.n
              IN /\ heap'.objs[ret'.value].type = "List"
                 /\ heap'.objs[ret'.value].elements = sequence
                 /\ DOMAIN heap'.lists = DOMAIN heap.lists
                 /\ \A l \in DOMAIN heap.lists :
                        l # sequence => heap'.lists[l] = heap.lists[l]
                 /\ heap'.lists[sequence] =
                        CASE op = "PLUS" -> Append(elements, ret.value)
                          [] op = "MINUS" ->
                               SubSeq(elements, 1, index)
                               \o SubSeq(elements, index + 2, Len(elements))
                          [] op = "MULTIPLY" -> elements \o heap.lists[other.elements]
       /\ (Running("BuiltInFunction_execute") /\ Top.pc = 0
           /\ heap.objs[Top.self].name \in {"append", "pop", "extend"}
           /\ Len(Top.args) = 2
           /\ stack' = Below /\ ~IsError(ret'.error)) =>
              LET name == heap.objs[Top.self].name
                  sequence == heap.objs[Top.args[1]].elements
                  elements == heap.lists[sequence]
                  other == heap.objs[Top.args[2]]
                  index == IF other.num.n < 0 THEN other.num.n + Len(elements)
                           ELSE other.num.n
              IN /\ heap.objs[Top.args[1]].type = "List"
                 /\ DOMAIN heap'.lists = DOMAIN heap.lists
                 /\ \A l \in DOMAIN heap.lists :
                        l # sequence => heap'.lists[l] = heap.lists[l]
                 /\ name = "append" =>
                        /\ heap'.lists[sequence] = Append(elements, Top.args[2])
                        /\ ret'.value = Number_none
                        /\ Plain(ret')
                 /\ name = "pop" =>
                        /\ heap'.lists[sequence] =
                               SubSeq(elements, 1, index)
                               \o SubSeq(elements, index + 2, Len(elements))
                        /\ ret'.value = elements[index + 1]
                 /\ name = "extend" =>
                        /\ heap'.lists[sequence] = elements \o heap.lists[other.elements]
                        /\ ret'.value = Number_none]_vars
\* VAR b = a + 5 has been run with a bound to [1]: a and b are bound to two
\* wrappers of one sequence, which now ends with the 5
C11_Witness ==
    LET symbols == heap.symbol_tables[global_symbol_table].symbols
        a == heap.objs[symbols["a"]]
        elements == heap.lists[a.elements]
    IN /\ stack # <<>>
       /\ {"a", "b"} \subseteq DOMAIN symbols
       /\ symbols["a"] # symbols["b"]
       /\ a.type = "List"
       /\ heap.objs[symbols["b"]].type = "List"
       /\ heap.objs[symbols["b"]].elements = a.elements
       /\ Len(elements) = 2
       /\ heap.objs[elements[2]].num = PyInt(5)

RECURSIVE Repeated(_, _)
\* the string s, n times over
Repeated(s, n) == IF n <= 0 THEN "" ELSE s \o Repeated(s, n - 1)
\* C12 as the specification states it: String * Number, the number being an
\* integer n, returns the String repeated n times, and no error.
C12_StringRepeats ==
    [][(Running("visit_BinOpNode") /\ Top.pc = 2 /\ Plain(ret)
        /\ Top.node.operator_token.type = "MULTIPLY"
        /\ heap.objs[Top.left].type = "String"
        /\ heap.objs[ret.value].type = "Number"
        /\ ~heap.objs[ret.value].num.f) =>
           /\ stack' = Below
           /\ Plain(ret')
           /\ heap'.objs[ret'.value].type = "String"
           /\ heap'.objs[ret'.value].str =
                  Repeated(heap.objs[Top.left].str, heap.objs[ret.value].num.n)]_vars

\* C13 as the specification states it: FUN without a name is parsed whatever
\* the number of its parameters (the parser goes on from the parameter list
\* and no exception ends it) to a FuncDefNode without a name, and the
\* evaluation of such a node returns a Function and binds no name.
C13_AnonymousFunction ==
    [][/\ (Running("parse_params_and_arrow") /\ Top.var_name_token.type = None) =>
              /\ exc' = NoExc
              /\ stack' # <<>>
       /\ (Running("visit_FuncDefNode") /\ Top.node.var_name_token.type = None) =>
              /\ stack' = Below
              /\ Plain(ret')
              /\ heap'.objs[ret'.value].type = "Function"
              /\ heap'.symbol_tables = heap.symbol_tables]_vars

\* the names of the parameter list that the parser is at the start of, if
\* it is a list: names with commas in between and a closing parenthesis
ParameterNames ==
    LET at(k) == parser.tokens[parser.token_index + k]
        last == Len(parser.tokens) - parser.token_index
        IsList(n) ==
            /\ 2 * n <= last
            /\ \A k \in 1..n : at(2 * k - 1).type = "IDENTIFIER"
            /\ \A k \in 1..(n - 1) : at(2 * k).type = "COMMA"
            /\ at(2 * n).type = "RPAREN"
    IN IF \E n \in 1..last : IsList(n)
       THEN LET n == CHOOSE n \in 1..last : IsList(n)
            IN [k \in 1..n |-> at(2 * k - 1).value]
       ELSE <<>>
\* C14 as the specification states it: a parameter list that has a name
\* twice, or the name of the function, makes the definition fail with the
\* syntax error "Duplicate parameter ..."; a list of distinct names, none of
\* them the name of the function, is accepted, and the parser goes on to the
\* arrow or the body with these parameters.
C14_DuplicateParameters ==
    [][(Running("parse_params_and_arrow") /\ ParameterNames # <<>>) =>
           LET names == ParameterNames
               duplicate ==
                   \/ \E i, j \in 1..Len(names) : i # j /\ names[i] = names[j]
                   \/ /\ Top.var_name_token.type # None
                      /\ \E i \in 1..Len(names) : names[i] = Top.var_name_token.value
           IN IF duplicate
              THEN /\ stack' = Below
                   /\ ret'.error
                   /\ ret'.result.error.name = "Invalid Syntax"
                   /\ SubSeq(ret'.result.error.details, 1, 19) = "Duplicate parameter"
              ELSE /\ Len(stack') = Len(stack)
                   /\ stack'[Len(stack')].fn = "checkfor_parse_arrow"
                   /\ Len(stack'[Len(stack')].param_name_tokens) = Len(names)
                   /\ \A k \in 1..Len(names) :
                          stack'[Len(stack')].param_name_tokens[k].value = names[k]]_vars

\* a round of the loop of make_tokens that goes on to the next round
NextRound ==
    /\ Running("make_tokens")
    /\ Len(stack') = Len(stack)
    /\ stack'[Len(stack')].fn = "make_tokens"
\* C15 as the specification states it, round by round of make_tokens: the
\* round appends one NEWLINE token when it is at a ';' or a newline, and
\* also when it skips a single-line comment together with the newline that
\* ends it (a newline that is in no string and no block comment); a round
\* that makes a string or skips a block comment appends none, whatever is
\* in them.
C15_Separators ==
    [][NextRound =>
           LET lx == Top.lx
               from == lx.pos.theindex
               to == stack'[Len(stack')].lx.pos.theindex
               tokens == stack'[Len(stack')].tokens
               separators ==
                   IF lx.current_char \in {";", "\n"} THEN 1
                   ELSE IF /\ lx.current_char = "#"
                           /\ CharAt(lx.text, from + 1) # "*"
                           /\ CharAt(lx.text, to - 1) = "\n"
                   THEN 1
                   ELSE 0
           IN Cardinality({k \in (Len(Top.tokens) + 1)..Len(tokens) :
                               tokens[k].type = "NEWLINE"}) = separators]_vars

\* C16 as the specification states it: a round of make_tokens that is at a
\* #* with no *# after it in the text returns an error, and the error
\* starts on the line of the #*.
C16_UnterminatedComment ==
    [][(/\ Running("make_tokens")
        /\ Top.lx.current_char = "#"
        /\ CharAt(Top.lx.text, Top.lx.pos.theindex + 1) = "*"
        /\ ~\E i \in (Top.lx.pos.theindex + 2)..(Len(Top.lx.text) - 2) :
                CharAt(Top.lx.text, i) = "*" /\ CharAt(Top.lx.text, i + 1) = "#") =>
           /\ stack' = Below
           /\ IsError(ret'.error)
           /\ ret'.tokens = <<>>
           /\ ret'.error.pos_start.linenum = Top.lx.pos.linenum]_vars

\* C17: the tokens that make_tokens returns without an error end with an EOF
\* token, and it is the only one; the tokens made so far hold none while
\* make_tokens is running.
C17_OneEOF ==
    /\ (Running("run") /\ Top.pc = 1 /\ ~IsError(ret.error)) =>
           /\ Len(ret.tokens) > 0
           /\ \A k \in 1..Len(ret.tokens) :
                  ret.tokens[k].type = "EOF" <=> k = Len(ret.tokens)
    /\ Running("make_tokens") =>
           \A k \in 1..Len(Top.tokens) : Top.tokens[k].type # "EOF"
\* make_tokens has returned the tokens of a text that is one comment
C17_Witness ==
    /\ Running("run")
    /\ Top.pc = 1
    /\ Top.text = "# only"
    /\ ~IsError(ret.error)
    /\ Len(ret.tokens) = 1

\* the numeric literal that the lexer lx is at the first digit of: whether
\* it is in exponent form, whether the exponent has its digits, and the
\* number it denotes
LiteralAt(lx) ==
    LET s == NumberScan(lx, "", 0)
        signed == s.exponent /\ s.lx.current_char \in {"+", "-"}
        first == s.lx.pos.theindex + (IF signed THEN 1 ELSE 0)
        n == CHOOSE j \in 0..(Len(lx.text) - first) :
                 /\ \A i \in 0..(j - 1) : CharAt(lx.text, first + i) \in DIGITS
                 /\ CharAt(lx.text, first + j) \notin DIGITS
        digits == SubSeq(lx.text, first + 1, first + n)
        exponent == IF Len(StripZeros(digits)) > 4 THEN 10000 ELSE StrToInt(digits)
    IN [exponent |-> s.exponent,
        complete |-> ~s.exponent \/ n > 0,
        number |-> IF ~s.exponent THEN Literal(s.num_str, 0, s.dot_count # 0)
                   ELSE Literal(s.num_str,
                                IF signed /\ s.lx.current_char = "-" THEN -exponent
                                ELSE exponent, TRUE)]
\* C18 as the specification states it: a round of make_tokens that is at a
\* numeric literal never ends in an exception; it returns the overflow error
\* when the base-10 logarithm of the number is 308 or more, the underflow
\* error when the literal is in exponent form and the logarithm is -308 or
\* less, and else it appends an INT or FLOAT token.
C18_LiteralRange ==
    [][(Running("make_tokens") /\ Top.lx.current_char \in DIGITS
        /\ LiteralAt(Top.lx).complete) =>
           LET literal == LiteralAt(Top.lx)
               number == literal.number
               Fails(details) ==
                   /\ stack' = Below
                   /\ ret'.tokens = <<>>
                   /\ ret'.error.name = "Invalid Syntax"
                   /\ ret'.error.details \in details
           IN /\ exc' = NoExc
              /\ IF ~number.zero /\ number.log10 >= 308
                 THEN Fails({"number_overflow", "exponent_overflow"})
                 ELSE IF /\ literal.exponent
                         /\ ~number.zero
                         /\ \/ number.log10 < -308
                            \/ number.log10 = -308 /\ number.pow10
                 THEN Fails({"exponent_underflow"})
                 ELSE /\ NextRound
                      /\ Len(stack'[Len(stack')].tokens) = Len(Top.tokens) + 1
                      /\ stack'[Len(stack')].tokens[Len(Top.tokens) + 1].type
                             \in {"INT", "FLOAT"}]_vars

\* the order of two numbers and their sum, by cross-multiplication
NumLess(a, b) == a.n * b.d < b.n * a.d
IsSum(c, a, b) == c.n * a.d * b.d = (a.n * b.d + b.n * a.d) * c.d
\* what a FOR loop does at the head of its while loop, where the counter is
\* i and the values collected are elements: it binds the variable to i in
\* the table of its context and evaluates the body with the counter
\* advanced by step, or it returns the values collected, the unit value in
\* statement form
ForHead(i, elements, end_value, step_value) ==
    LET for == Len(stack)
        table == heap.contexts[Top.context].symbol_table
        name == Top.node.var_name_token.value
    IN IF \/ step_value.n >= 0 /\ NumLess(i, end_value)
          \/ step_value.n < 0 /\ NumLess(end_value, i)
       THEN /\ Len(stack') = for + 1
            /\ stack'[for + 1] = Visit(Top.node.body_node, Top.context)
            /\ stack'[for].pc = 4
            /\ stack'[for].elements = elements
            /\ IsSum(stack'[for].i, i, step_value)
            /\ name \in DOMAIN heap'.symbol_tables[table].symbols
            /\ LET bound == heap'.objs[heap'.symbol_tables[table].symbols[name]]
               IN bound.type = "Number" /\ bound.num = i
       ELSE /\ stack' = Below
            /\ Plain(ret')
            /\ IF Top.node.should_return_none THEN ret'.value = Number_none
               ELSE /\ heap'.objs[ret'.value].type = "List"
                    /\ heap'.lists[heap'.objs[ret'.value].elements] = elements

\* C19: a FOR loop whose start, end and step are Numbers.  The three
\* expressions are evaluated once each, in this order, before the loop, and
\* the step is Number(1) when there is no STEP; from then on only the body
\* is evaluated and the three values stay what they were.  The body runs
\* for i = start, start + step, ... while i < end when step >= 0 and while
\* i > end when step < 0, with the variable bound to i in the table of the
\* current context before each evaluation of the body.  The value of a body
\* that completed is collected, that of one ended by CONTINUE or BREAK is
\* not, and BREAK ends the loop; the loop returns the list of the values
\* collected, in order, and the unit value in statement form.
C19_ForLoop ==
    [][/\ \A k \in 1..Len(heap.objs) :
              heap.objs[k].type = "Number" =>
                  /\ heap'.objs[k].type = "Number"
                  /\ heap'.objs[k].num = heap.objs[k].num
       /\ Running("visit_ForNode") =>
              LET for == Len(stack)
                  node == Top.node
                  IsNumber(value) == heap.objs[value].type = "Number"
                  num(value) == heap.objs[value].num
                  one == [n |-> 1, d |-> 1, f |-> FALSE, e |-> 0]
                  Evaluates(header, pc) ==
                      /\ Len(stack') = for + 1
                      /\ stack'[for + 1] = Visit(header, Top.context)
                      /\ stack'[for].pc = pc
              IN /\ Top.pc = 0 => Evaluates(node.start_value_node, 1)
                 /\ (Top.pc = 1 /\ Plain(ret)) =>
                        /\ Evaluates(node.end_value_node, 2)
                        /\ stack'[for].start_value = ret.value
                 /\ (Top.pc = 2 /\ Plain(ret) /\ node.step_value_node.kind # None) =>
                        /\ Evaluates(node.step_value_node, 3)
                        /\ stack'[for].start_value = Top.start_value
                        /\ stack'[for].end_value = ret.value
                 /\ (Top.pc = 2 /\ Plain(ret) /\ node.step_value_node.kind = None
                     /\ IsNumber(Top.start_value) /\ IsNumber(ret.value)) =>
                        /\ ForHead(num(Top.start_value), <<>>, num(ret.value), one)
                        /\ Len(stack') > for =>
                               /\ stack'[for].end_value = ret.value
                               /\ heap'.objs[stack'[for].step_value].num = one
                 /\ (Top.pc = 3 /\ Plain(ret) /\ IsNumber(Top.start_value)
                     /\ IsNumber(Top.end_value) /\ IsNumber(ret.value)) =>
                        /\ ForHead(num(Top.start_value), <<>>, num(Top.end_value),
                                   num(ret.value))
                        /\ Len(stack') > for =>
                               /\ stack'[for].end_value = Top.end_value
                               /\ stack'[for].step_value = ret.value
                 /\ Top.pc = 4 =>
                        /\ Len(stack') > for =>
                               /\ stack'[for].end_value = Top.end_value
                               /\ stack'[for].step_value = Top.step_value
                        /\ Plain(ret) =>
                               ForHead(Top.i, Append(Top.elements, ret.value),
                                       num(Top.end_value), num(Top.step_value))
                        /\ ret.loop_should_continue =>
                               ForHead(Top.i, Top.elements,
                                       num(Top.end_value), num(Top.step_value))
                        /\ (ret.loop_should_break /\ ~ret.loop_should_continue) =>
                               /\ stack' = Below
                               /\ Plain(ret')
                               /\ IF node.should_return_none
                                  THEN ret'.value = Number_none
                                  ELSE heap'.lists[heap'.objs[ret'.value].elements]
                                       = Top.elements]_vars
\* a loop that counts downwards has collected the values of two bodies and
\* the third body has completed
C19_Witness ==
    /\ Running("visit_ForNode")
    /\ Top.pc = 4
    /\ Plain(ret)
    /\ Len(Top.elements) = 2
    /\ heap.objs[Top.step_value].num.n < 0

\* the token after the current one, THEN or ELSE, is a NEWLINE: the branch or
\* body that follows is written in multi-line form
MultiLine == parser.tokens[parser.token_index + 2].type = "NEWLINE"
\* the running method calls the method fn and goes on from pc
Calls(fn, pc) ==
    /\ Len(stack') = Len(stack) + 1
    /\ stack'[Len(stack')].fn = fn
    /\ stack'[Len(stack)].pc = pc
\* the running parser method returns a result without error
Parsed == stack' = Below /\ ret'.error = NoError
\* the parser, at THEN or ELSE, takes the multi-line form exactly when a
\* NEWLINE follows, and marks the case, else case or loop it makes of a
\* multi-line form with should_return_none and that of a single-line form
\* without it; the cases of an IF keep their own marks when they are joined
C20_ParserMarksForm ==
    /\ (Running("if_expr_cases") /\ Top.pc = 1 /\ ret.error = NoError
        /\ Matches(parser.current_token, "KEYWORD", "THEN")) =>
           IF MultiLine THEN Calls("parse_multiline_then", 2)
           ELSE Calls("statement", 3)
    /\ (Running("if_expr_cases") /\ Top.pc = 2 /\ stack' = Below /\ ~ret.error) =>
           /\ ret'.node.cases = ret.cases
           /\ ret'.node.else_case = ret.else_case
    /\ (Running("if_expr_cases") /\ Top.pc = 3 /\ ret.error = NoError) =>
           /\ Calls("if_expr_b_or_c", 4)
           /\ stack'[Len(stack)].cases =
                  <<[condition |-> Top.condition, node |-> ret.node,
                     should_return_none |-> FALSE]>>
    /\ (Running("if_expr_cases") /\ Top.pc = 4 /\ Parsed) =>
           /\ ret'.node.cases = Top.cases \o ret.node.cases
           /\ ret'.node.else_case = ret.node.else_case
    /\ (Running("parse_multiline_then") /\ Top.pc = 1 /\ ret.error = NoError) =>
           LET case == [condition |-> Top.condition, node |-> ret.node,
                        should_return_none |-> TRUE]
           IN IF Matches(parser.current_token, "KEYWORD", "END")
              THEN /\ stack' = Below
                   /\ ~ret'.error
                   /\ ret'.cases = <<case>>
                   /\ ret'.else_case.kind = None
              ELSE /\ Calls("if_expr_b_or_c", 2)
                   /\ stack'[Len(stack)].cases = <<case>>
    /\ (Running("parse_multiline_then") /\ Top.pc = 2 /\ ret.error = NoError) =>
           /\ stack' = Below
           /\ ~ret'.error
           /\ ret'.cases = Top.cases \o ret.node.cases
           /\ ret'.else_case = ret.node.else_case
    /\ (Running("if_expr_b_or_c") /\ Top.pc = 1 /\ Parsed) => ret'.node = ret.node
    /\ (Running("if_expr_b_or_c") /\ Top.pc = 2 /\ Parsed) =>
           /\ ret'.node.cases = <<>>
           /\ ret'.node.else_case = ret.node
    /\ (Running("if_expr_c") /\ Top.pc = 0
        /\ Matches(parser.current_token, "KEYWORD", "ELSE")) =>
           IF MultiLine THEN Calls("parse_multiline_else", 1)
           ELSE Calls("statement", 2)
    /\ (Running("if_expr_c") /\ Top.pc = 0
        /\ ~Matches(parser.current_token, "KEYWORD", "ELSE")) =>
           Parsed /\ ret'.node.kind = None
    /\ (Running("if_expr_c") /\ Top.pc = 1 /\ Parsed) => ret'.node = ret.else_case
    /\ (Running("if_expr_c") /\ Top.pc = 2 /\ Parsed) =>
           /\ ret'.node.node = ret.node
           /\ ~ret'.node.should_return_none
    /\ (Running("parse_multiline_else") /\ Top.pc = 1 /\ stack' = Below
        /\ ret'.tuple /\ ~ret'.error) =>
           /\ ret'.else_case.node = ret.node
           /\ ret'.else_case.should_return_none
    /\ (Running("if_expr") /\ Top.pc = 1 /\ Parsed) =>
           /\ ret'.node.kind = "IfNode"
           /\ ret'.node.cases = ret.node.cases
           /\ ret'.node.else_case = ret.node.else_case
    /\ (Running("for_expr") /\ Top.pc \in {2, 3} /\ ret.error = NoError
        /\ Matches(parser.current_token, "KEYWORD", "THEN")) =>
           IF MultiLine THEN Calls("statements", 5) ELSE Calls("statement", 4)
    /\ (Running("for_expr") /\ Top.pc \in {4, 5} /\ Parsed) =>
           /\ ret'.node.kind = "ForNode"
           /\ ret'.node.body_node = ret.node
           /\ ret'.node.should_return_none = (Top.pc = 5)
    /\ (Running("while_expr") /\ Top.pc = 1 /\ ret.error = NoError
        /\ Matches(parser.current_token, "KEYWORD", "THEN")) =>
           IF MultiLine THEN Calls("statements", 3) ELSE Calls("statement", 2)
    /\ (Running("while_expr") /\ Top.pc \in {2, 3} /\ Parsed) =>
           /\ ret'.node.kind = "WhileNode"
           /\ ret'.node.body_node = ret.node
           /\ ret'.node.should_return_none = (Top.pc = 3)
\* the evaluator gives a branch or a loop that is marked the unit value and
\* one that is not marked the value of its expression, for a loop the list
\* of the values of its body; an IF without a true condition and without an
\* ELSE gives the unit value
C20_EvaluatorFollowsMark ==
    /\ (Running("visit_IfNode") /\ Top.pc = 2 /\ Plain(ret)) =>
           LET node == Top.node
               taken == IF Top.case <= Len(node.cases) THEN node.cases[Top.case]
                        ELSE node.else_case
           IN /\ stack' = Below
              /\ Plain(ret')
              /\ ret'.value = IF taken.should_return_none THEN Number_none
                              ELSE ret.value
    /\ (Running("visit_IfNode") /\ stack' = Below /\ Plain(ret')
        /\ Top.pc \in {0, 1}) =>
           /\ Top.node.else_case.kind = None
           /\ Top.pc = 1 => Top.case = Len(Top.node.cases)
           /\ ret'.value = Number_none
    /\ (Running("visit_IfNode") /\ Top.pc = 1 /\ Plain(ret)
        /\ ~is_true(heap.objs[ret.value]) /\ Top.case = Len(Top.node.cases)
        /\ Top.node.else_case.kind = None) =>
           stack' = Below /\ Plain(ret') /\ ret'.value = Number_none
    /\ ((Running("visit_ForNode") \/ Running("visit_WhileNode"))
        /\ stack' = Below /\ Plain(ret')) =>
           LET body == IF Running("visit_ForNode") THEN 4 ELSE 2
               elements == IF "elements" \in DOMAIN Top THEN Top.elements ELSE <<>>
           IN IF Top.node.should_return_none THEN ret'.value = Number_none
              ELSE /\ heap'.objs[ret'.value].type = "List"
                   /\ heap'.lists[heap'.objs[ret'.value].elements] =
                          IF Top.pc = body /\ Plain(ret)
                          THEN Append(elements, ret.value) ELSE elements

\* C20: the surface form decides the value.  A branch of an IF, ELIF or
\* ELSE and the body of a FOR or WHILE written in multi-line form, a
\* NEWLINE right after THEN or ELSE, evaluates to the unit value whatever
\* its statements yield; written in single-line form the branch evaluates
\* to the value of its expression and the loop to the list of the values of
\* its body.  Each branch of an IF follows its own form, and an IF with no
\* true condition and no ELSE evaluates to the unit value.
C20_FormDecidesValue == [][C20_ParserMarksForm /\ C20_EvaluatorFollowsMark]_vars
\* an IF whose first branch is written in multi-line form and whose ELSE in
\* single-line form has evaluated the expression of its ELSE
C20_Witness ==
    /\ Running("visit_IfNode")
    /\ Top.pc = 2
    /\ Plain(ret)
    /\ Top.node.cases[1].should_return_none
    /\ Top.case > Len(Top.node.cases)
    /\ ~Top.node.else_case.should_return_none

\* C21: an attempt that fails after it consumed at least one token is an
\* error of the parse.  When the statement tried after a separator, or the
\* expression tried after RETURN, returns an error and an advance_count
\* above zero, the method that tried it returns with that error, with its
\* message and its position, and parse returns the error of its list of
\* statements as it is.
C21_DeeperErrorReturned ==
    [][/\ (Running("parse_any_additional_statements") /\ Top.pc = 1
           /\ ret.error # NoError /\ ret.advance_count > 0) =>
              /\ stack' = Below
              /\ ret'.result.error = ret.error
       /\ (Running("parse_return") /\ Top.pc = 1
           /\ ret.error # NoError /\ ret.advance_count > 0) =>
              /\ stack' = Below
              /\ ret'.error = ret.error
       /\ (Running("parse") /\ Top.pc = 1 /\ ret.error # NoError) =>
              /\ stack' = Below
              /\ ret'.error = ret.error]_vars

\* the token can begin an expression, and a statement
BeginsExpr(token) ==
    \/ token.type \in {"INT", "FLOAT", "STRING", "IDENTIFIER", "PLUS", "MINUS",
                       "LPAREN", "LSQUARE"}
    \/ /\ token.type = "KEYWORD"
       /\ token.value \in {"VAR", "NOT", "IF", "FOR", "WHILE", "FUN"}
BeginsStatement(token) ==
    \/ BeginsExpr(token)
    \/ /\ token.type = "KEYWORD"
       /\ token.value \in {"RETURN", "CONTINUE", "BREAK", "IMPORT"}
\* the token at which the attempt that has just returned ret began
TriedAt == parser.tokens[parser.token_index - ret.advance_count + 1]

\* C22: an attempt that fails at its first token is given up for free.
\* When the token after one or more separators cannot begin a statement,
\* the statement tried there fails without consuming a token, and the list
\* of statements ends without error, with the statements parsed so far and
\* the cursor on that token; the ListNode is made of these statements.
\* When the token after RETURN cannot begin an expression, parse_return
\* returns a ReturnNode without expression and without error, the cursor on
\* the token right after RETURN.
C22_FreeBacktracking ==
    [][/\ (Running("parse_any_additional_statements") /\ Top.pc = 1
           /\ ret.error # NoError /\ ~BeginsStatement(TriedAt)) =>
              /\ ret.advance_count = 0
              /\ stack' = Below
              /\ ret'.result.error = NoError
              /\ ret'.statements = Top.statements
              /\ parser' = parser
              /\ parser.current_token = TriedAt
       /\ (Running("statements") /\ Top.pc = 2) =>
              /\ stack' = Below
              /\ ret'.error = ret.result.error
              /\ ret'.node.kind = "ListNode"
              /\ ret'.node.element_nodes = ret.statements
              /\ parser' = parser
       /\ (Running("parse_return") /\ Top.pc = 1
           /\ ret.error # NoError /\ ~BeginsExpr(TriedAt)) =>
              /\ ret.advance_count = 0
              /\ stack' = Below
              /\ ret'.error = NoError
              /\ ret'.node.kind = "ReturnNode"
              /\ ret'.node.node_to_return.kind = None
              /\ parser' = parser
              /\ parser.current_token = TriedAt
              /\ Matches(parser.tokens[parser.token_index], "KEYWORD", "RETURN")]_vars
\* the statement tried at END, after two separators, has failed
C22_Witness ==
    /\ Running("parse_any_additional_statements")
    /\ Top.pc = 1
    /\ ret.error # NoError
    /\ ret.advance_count = 0
    /\ Matches(parser.current_token, "KEYWORD", "END")
    /\ parser.tokens[parser.token_index].type = "NEWLINE"
    /\ parser.tokens[parser.token_index - 1].type = "NEWLINE"

\* the objects that are shared: Number.none, Number.false and Number.true,
\* and the values that a symbol table or a list holds
SharedValues ==
    {Number_none, Number_false, Number_true}
    \cup UNION {{heap.symbol_tables[t].symbols[name] :
                     name \in DOMAIN heap.symbol_tables[t].symbols} :
                t \in DOMAIN heap.symbol_tables}
    \cup UNION {{heap.lists[l][i] : i \in DOMAIN heap.lists[l]} :
                l \in DOMAIN heap.lists}
\* C23: no step changes the value, the span or the context of a shared
\* object: spans and contexts are set on new copies only.
C23_SharedValuesKept ==
    [][\A value \in SharedValues :
           /\ heap'.objs[value].type = heap.objs[value].type
           /\ heap'.objs[value].num = heap.objs[value].num
           /\ heap'.objs[value].pos_start = heap.objs[value].pos_start
           /\ heap'.objs[value].pos_end = heap.objs[value].pos_end
           /\ heap'.objs[value].context = heap.objs[value].context]_vars

\* the position reached from pos_start by advancing over the characters of
\* text up to the index of pos_end
AdvancedOver(text, pos_start, pos_end) ==
    LET newlines == {i \in pos_start.theindex..(pos_end.theindex - 1) :
                         CharAt(text, i) = "\n"}
        last == CHOOSE i \in newlines : \A j \in newlines : j <= i
    IN IF newlines = {}
       THEN [pos_start EXCEPT !.theindex = pos_end.theindex,
                              !.column = @ + pos_end.theindex - pos_start.theindex]
       ELSE [pos_start EXCEPT !.theindex = pos_end.theindex,
                              !.linenum = @ + Cardinality(newlines),
                              !.column = pos_end.theindex - last - 1]
\* C24: every token that make_tokens has made covers at least one character
\* of the text, and its pos_end is its pos_start advanced over the
\* characters it covers: the index by their number, the line by the
\* newlines among them, the column counted from the last of these.
C24_TokenSpans ==
    Running("make_tokens") =>
        \A i \in 1..Len(Top.tokens) :
            LET token == Top.tokens[i]
            IN /\ token.pos_end.theindex > token.pos_start.theindex
               /\ token.pos_end.theindex <= Len(Top.lx.text)
               /\ token.pos_end = AdvancedOver(Top.lx.text, token.pos_start,
                                               token.pos_end)

\* how many of error, func_return_value, loop_should_continue and
\* loop_should_break the RTResult holds
Signals(res) ==
    Cardinality({k \in 1..4 : CASE k = 1 -> IsError(res.error)
                                [] k = 2 -> res.func_return_value # 0
                                [] k = 3 -> res.loop_should_continue
                                [] k = 4 -> res.loop_should_break})
\* C25: an RTResult holds one outcome.  The result that a visit method
\* returns holds a value and no signal, or no value and one of error,
\* return value, continue and break; and the result object of every method
\* in progress holds at most one of the four at any time, whatever it has
\* registered.
C25_OneOutcome ==
    [][/\ \A i \in 1..Len(stack) :
              "result" \in DOMAIN stack[i] /\ "loop_should_break" \in DOMAIN stack[i].result
                  => Signals(stack[i].result) <= 1
       /\ (stack # <<>> /\ Len(Top.fn) > 6 /\ SubSeq(Top.fn, 1, 6) = "visit_"
           /\ stack' = Below) =>
              IF ret'.value # 0 THEN Signals(ret') = 0 ELSE Signals(ret') = 1]_vars
\* a list of statements has registered the break signal of a statement
C25_Witness ==
    /\ Running("visit_ListNode")
    /\ Top.pc = 1
    /\ ret.loop_should_break

\* C26: the evaluation of the program in run ends with a value or an error.
\* The result of the visit of the program holds no return value, no
\* continue and no break, and run returns a value or an error, not the pair
\* of None and None.
C26_NoPendingSignal ==
    [][(Running("run") /\ Top.pc = 3) =>
           /\ ret.func_return_value = 0
           /\ ~ret.loop_should_continue
           /\ ~ret.loop_should_break
           /\ stack' = Below
           /\ ~Top.return_result => (ret'.value # 0 \/ IsError(ret'.error))]_vars

\* ---------------------------------------------------- the cursor of the parser
\* the methods that work on the ParseResult of their caller: their frame
\* holds it, and the caller takes it back from what they return
OnResultOfCaller ==
    {"parse_any_additional_statements", "parse_multiline_then",
     "parse_multiline_else", "parse_params_and_arrow", "checkfor_parse_arrow"}
\* the place of the frame of Parser.parse in the stack
ParseFrame == CHOOSE k \in 1..Len(stack) : stack[k].fn = "parse"
\* a result came back that the running method has not yet taken
Pending == ret # NoRet
\* the ParseResult that came back, alone or as a member of a tuple
Returned == IF "result" \in DOMAIN ret THEN ret.result ELSE ret
\* the ParseResult of frame i is out of date: the method above it, or the
\* tuple that came back, holds the current one
Superseded(i) ==
    \/ i < Len(stack) /\ stack[i + 1].fn \in OnResultOfCaller
    \/ i = Len(stack) /\ Pending /\ "result" \in DOMAIN ret
RECURSIVE Advanced(_)
\* the advances counted by the ParseResults of the sub-parses in progress,
\* from the frame above parse to frame i
Advanced(i) ==
    IF i <= ParseFrame THEN 0
    ELSE Advanced(i - 1) + (IF Superseded(i) THEN 0 ELSE stack[i].result.advance_count)
\* a statement or an expression that was tried came back with an error
TryFailed ==
    /\ Running("parse_any_additional_statements") \/ Running("parse_return")
    /\ Top.pc = 1
    /\ ret.error # NoError

\* C27: the cursor of the parser and the advance counts agree. While parse
\* is at work the cursor is on a token of the list, never before the first
\* one nor after the EOF token; the cursor has moved from the first token by
\* what the ParseResults of the sub-parses in progress have counted, so that
\* a sub-parse returns a ParseResult whose advance_count is the number of
\* tokens it moved the cursor by; and the reverse that follows a failed
\* try_register moves the cursor back by the advance_count of the failed
\* result, to where the attempt began.
C27_CursorConsistent ==
    /\ []((\E k \in 1..Len(stack) : stack[k].fn = "parse") =>
             /\ parser.token_index >= 0
             /\ parser.token_index <= Len(parser.tokens) - 1
             /\ parser.current_token = parser.tokens[parser.token_index + 1]
             /\ parser.token_index =
                    Advanced(Len(stack)) + (IF Pending THEN Returned.advance_count ELSE 0))
    /\ [][TryFailed =>
             /\ parser'.token_index = parser.token_index - ret.advance_count
             /\ parser'.current_token = parser.tokens[parser'.token_index + 1]]_vars
\* a statement failed after it had taken tokens, and the cursor is back on
\* its first token
C27_Witness ==
    /\ Running("statements")
    /\ Top.pc = 2
    /\ Pending
    /\ ret.result.to_reverse_count > 1
    /\ parser.token_index = ret.result.advance_count
    /\ parser.tokens[parser.token_index].type = "NEWLINE"

\* ------------------------------------------------- the tables a call writes to
\* the call of a user function that is in progress innermost, as the place
\* of its frame in the stack; 0 when there is none
InnermostCall ==
    LET calls == {k \in 1..Len(stack) : stack[k].fn = "Function_execute"}
    IN IF calls = {} THEN 0 ELSE CHOOSE k \in calls : \A j \in calls : j <= k
\* the body of a user function is being evaluated, or the call is being set
\* up or ended, and no built-in function is at work in the body
InBody ==
    /\ InnermostCall # 0
    /\ \A j \in InnermostCall..Len(stack) : stack[j].fn # "BuiltInFunction_execute"
\* the symbol table of a context
TableOf(context) == heap.contexts[context].symbol_table
\* the symbol table made for the innermost call: the one of the context its
\* body is visited with
FreshTable == TableOf(stack[InnermostCall + 1].context)
\* the symbol tables of the scope that called the function and of the scope
\* that defined it
CallerTable == TableOf(stack[InnermostCall - 1].context)
DefinerTable == TableOf(heap.objs[stack[InnermostCall].self].context)
\* the symbol tables whose names or bound objects the step changes
Written ==
    {t \in 1..Len(heap.symbol_tables) :
         heap'.symbol_tables[t] # heap.symbol_tables[t]}

\* C28: the evaluation of the body of a user function writes to the symbol
\* table made for that call only. The step that makes the context and binds
\* the parameters, and the step that ends the call, with a value or with an
\* error, change no table that there was; a step of the body (VAR, the
\* variable of a FOR, FUN, the parameters of a call it makes) changes at
\* most the table of the call, which is neither the table of the caller nor
\* the table of the defining scope, and no table goes away.
C28_WritesOwnTableOnly ==
    [][InBody =>
           /\ Len(heap'.symbol_tables) >= Len(heap.symbol_tables)
           /\ IF InnermostCall = Len(stack) THEN Written = {}
              ELSE /\ Written \subseteq {FreshTable}
                   /\ FreshTable \notin {CallerTable, DefinerTable}
                   /\ heap.symbol_tables[FreshTable].parent = DefinerTable]_vars
\* a call ends with an error after its body has assigned a, b, i and g,
\* three of them names of the global table, which holds its own objects
C28_Witness ==
    /\ Running("Function_execute")
    /\ Top.pc = 1
    /\ IsError(ret.error)
    /\ \E t \in 2..Len(heap.symbol_tables) :
           /\ heap.symbol_tables[t].parent = 1
           /\ DOMAIN heap.symbol_tables[t].symbols = {"a", "b", "i", "g"}
           /\ \A name \in {"a", "i", "g"} :
                  /\ name \in DOMAIN heap.symbol_tables[1].symbols
                  /\ heap.symbol_tables[1].symbols[name] #
                         heap.symbol_tables[t].symbols[name]
           /\ "b" \notin DOMAIN heap.symbol_tables[1].symbols

\* ------------------------------------------------------ the rounds of a FOR
\* the number of rounds of a FOR loop over integers from start to end by
\* step, a step of zero going with a start that is not below the end
Rounds(start, end, step) ==
    IF step > 0 THEN (IF start >= end THEN 0 ELSE (end - start + step - 1) \div step)
    ELSE IF step < 0 THEN (IF start <= end THEN 0 ELSE (start - end - step - 1) \div (-step))
    ELSE 0
\* the loop never leaves by its condition
Endless(start, end, step) == step = 0 /\ start < end
\* the value is an integer Number
IsInteger(value) ==
    /\ heap.objs[value].type = "Number"
    /\ ~heap.objs[value].num.f
    /\ heap.objs[value].num.d = 1
IntegerOf(value) == heap.objs[value].num.n
\* the running FOR loop, at the head of its while loop after done rounds,
\* goes into the body for one more round if the header asks for more than
\* done rounds, and returns its value if not
Decides(start, end, step, done) ==
    IF Endless(start, end, step) \/ done < Rounds(start, end, step)
    THEN /\ Len(stack') = Len(stack) + 1
         /\ stack'[Len(stack)].pc = 4
         /\ stack'[Len(stack)].rounds = done + 1
         /\ stack'[Len(stack)].i.n = start + (done + 1) * step
         /\ stack'[Len(stack) + 1] = Visit(Top.node.body_node, Top.context)
    ELSE /\ stack' = Below
         /\ Plain(ret')
\* the FOR loops in progress, as the places of their frames in the stack
ForLoops == {k \in 1..Len(stack) : stack[k].fn = "visit_ForNode" /\ stack[k].pc = 4}
\* the loop of frame k is over integers and its header lets it end
EndsByHeader(k) ==
    /\ IsInteger(stack[k].start_value)
    /\ IsInteger(stack[k].end_value)
    /\ IsInteger(stack[k].step_value)
    /\ ~Endless(IntegerOf(stack[k].start_value), IntegerOf(stack[k].end_value),
                IntegerOf(stack[k].step_value))

\* C29: a FOR loop over integers whose body ends without an error, a BREAK or
\* a RETURN goes round Rounds(start, end, step) times when step is not zero
\* or start >= end, and without end when step is zero and start < end. At the
\* head of the loop the rounds done and the three values of the header
\* decide whether the body is evaluated once more, and the counter is start
\* plus the rounds done times step, whatever the body has assigned to the
\* variable; and when the loops in progress are loops that their headers
\* let end, there comes a state with no loop in progress, unless the
\* evaluation halts at a bound of the model.
C29_ForTerminates ==
    /\ [][Running("visit_ForNode") =>
              /\ (/\ Top.pc = 4
                  /\ ~IsError(ret.error) /\ ret.func_return_value = 0
                  /\ ~ret.loop_should_break
                  /\ IsInteger(Top.start_value) /\ IsInteger(Top.end_value)
                  /\ IsInteger(Top.step_value))
                 => /\ Top.i.n = IntegerOf(Top.start_value)
                                     + Top.rounds * IntegerOf(Top.step_value)
                    /\ Decides(IntegerOf(Top.start_value), IntegerOf(Top.end_value),
                               IntegerOf(Top.step_value), Top.rounds)
              /\ (/\ Top.pc = 3
                  /\ Plain(ret)
                  /\ IsInteger(Top.start_value) /\ IsInteger(Top.end_value)
                  /\ IsInteger(ret.value))
                 => Decides(IntegerOf(Top.start_value), IntegerOf(Top.end_value),
                            IntegerOf(ret.value), 0)
              /\ (/\ Top.pc = 2
                  /\ Top.node.step_value_node.kind = None
                  /\ Plain(ret)
                  /\ IsInteger(Top.start_value) /\ IsInteger(ret.value))
                 => Decides(IntegerOf(Top.start_value), IntegerOf(ret.value), 1, 0)]_vars
    /\ (ForLoops # {} /\ \A k \in ForLoops : EndsByHeader(k))
           ~> (ForLoops = {} \/ Halted)
\* the loop with a step of zero from 2 to 1 has returned the empty list: the
\* program has the one value []
C29_Witness ==
    /\ Running("run")
    /\ Top.pc = 3
    /\ Top.text = "FOR i = 2 TO 1 STEP 0 THEN i"
    /\ Plain(ret)
    /\ LET values == heap.lists[heap.objs[ret.value].elements]
       IN /\ Len(values) = 1
          /\ heap.lists[heap.objs[values[1]].elements] = <<>>

\* ------------------------------------- errors in the bodies of THEN and ELSE
\* C30: a syntax error in the statements of a multi-line ELSE is returned as
\* the error of the ParseResult of the ELSE, as a syntax error in the
\* statements of a multi-line THEN is returned as the error of the
\* ParseResult of the case: the method that asked for the body returns the
\* ParseResult with the error of the body, and no exception is raised.
C30_BodyErrorReturned ==
    [][/\ (/\ Running("if_expr_cases")
           /\ Top.pc = 2
           /\ ret.result.error # NoError)
          => /\ exc' = NoExc
             /\ stack' = Below
             /\ ret'.error = ret.result.error
       /\ (/\ Running("if_expr_c")
           /\ Top.pc = 1
           /\ ret.result.error # NoError)
          => /\ exc' = NoExc
             /\ stack' = Below
             /\ ret'.error = ret.result.error]_vars
====
